---------------------------- MODULE Spec2Model ----------------------------
(***************************************************************************)
(* Model of the BookStack tool adapter (fastmcp_server/bookstack/tools.py): *)
(* the operation compiler _build_content_operation, the batch executor      *)
(* bookstack_batch_operations and the image list cache used by              *)
(* bookstack_manage_images.                                                  *)
(*                                                                           *)
(* Python values are tagged tuples, so that values of different Python      *)
(* types can be compared:                                                    *)
(*   None        <<"none">>                                                  *)
(*   str         <<"str", s>>    s a sequence of one-character strings       *)
(*   int         <<"int", n>>                                                *)
(*   list        <<"list", l>>   l a sequence of values                      *)
(*   tag dict    <<"tag", name, value>>                                      *)
(* A dict is a function from a finite set of keys (strings) to values.       *)
(***************************************************************************)
EXTENDS Integers, Sequences, FiniteSets, TLC

VARIABLES
    \* --- bookstack_manage_content: one invocation at a time ---
    creq,        \* arguments of the invocation in progress (NoReq when idle)
    cres,        \* PreparedOperation or error of _build_content_operation
    \* --- bookstack_batch_operations: one invocation at a time ---
    bpc,         \* "idle" | "loop" | "built" | "done" | "failed"
    binp,        \* arguments of the invocation
    bidx,        \* `index`: start of the current batch_slice
    boff,        \* `offset_within_batch`
    prepared,    \* what build_prepared gave for the current item
    successes,   \* `successes`
    errors,      \* `errors`
    calls,       \* requests handed to _bookstack_request, in order
    built,       \* item indexes handed to build_prepared, in order
    prev,        \* `results` of the dry run this live run repeats (NoPrev if none)
    \* --- bookstack_manage_images and the list cache ---
    now,         \* time.time()
    LIST_CACHE,  \* _LIST_CACHE: cache key -> CacheEntry
    remote,      \* version of the remote gallery (bumped by each mutation)
    inv,         \* per invocation of bookstack_manage_images: position and locals
    stored,      \* history: query parameters (as a mapping) -> when, by which call and
                 \* at which version of the remote gallery they were last stored
    lastDone,    \* history: "mutation" once an image mutation was the last to complete
    \* --- one call of bookstack_manage_content or bookstack_manage_images ---
    env,         \* os.environ: the three settings
    tpc,         \* "idle" | "ready" | "gallery" | "fetching" | "resolved" | "sent" |
                 \* "done" | "failed"
    treq,        \* the arguments of the call
    tprep,       \* `prepared`: what _build_content_operation returned
    timg,        \* the PreparedImage of the call (not present: None)
    turl,        \* the arguments of the _fetch_image_from_url call in progress
    terr,        \* the error the call raised, and where
    net,         \* history: the HTTP requests the call has made, in order
    \* --- one call of _fetch_image_from_url ---
    fpc,         \* "idle" | "requested" | "streaming" | "done" | "failed"
    furl,        \* what the url gives as file name, and the fallback name
    fresp,       \* the response: its Content-Length header and resolved mime type
    fcontent,    \* len(content)
    fread,       \* history: the number of chunks read from the body
    fresult,     \* the PreparedImage returned
    ferr,        \* the error raised ("" if none)
    \* --- one call of the image payload resolver, on texts ---
    rpc,         \* "idle" | "called" | "metadata" | "fetching" | "done" | "failed"
    rin,         \* the image argument (or gallery image id) and the fallback name
    rurl,        \* the url handed to _fetch_image_from_url
    rname,       \* the fallback name handed to _fetch_image_from_url
    rresp,       \* the response of requests.get: Content-Type header, body length
    rres,        \* the PreparedImage returned or the error raised
    rnet,        \* history: the urls requests.get was called with
    \* --- one call of update_bookshelf ---
    spc,         \* "idle" | "get" | "put" | "done"
    sargs,       \* the arguments of the call
    scur,        \* `current_data`: the record the GET returned
    scalls,      \* history: the requests made through the session, in order
    sres,        \* what the call returned
    \* --- one SmartCache ---
    lcache,      \* `_cache`: key -> CacheEntry
    lclock,      \* time.time()
    lused,       \* history: key -> when it was last read by get or written by set
    lop          \* history: the last operation and what it removed

compileVars == <<creq, cres>>
batchVars == <<bpc, binp, bidx, boff, prepared, successes, errors, calls, built, prev>>
cacheVars == <<now, LIST_CACHE, remote, inv, stored, lastDone>>
toolVars == <<env, tpc, treq, tprep, timg, turl, terr, net>>
fetchVars == <<fpc, furl, fresp, fcontent, fread, fresult, ferr>>
resolveVars == <<rpc, rin, rurl, rname, rresp, rres, rnet>>
shelfVars == <<spc, sargs, scur, scalls, sres>>
lruVars == <<lcache, lclock, lused, lop>>
extraVars == <<resolveVars, shelfVars, lruVars>>
vars == <<creq, cres, bpc, binp, bidx, boff, prepared, successes, errors, calls, built, prev,
          now, LIST_CACHE, remote, inv, stored, lastDone,
          env, tpc, treq, tprep, timg, turl, terr, net,
          fpc, furl, fresp, fcontent, fread, fresult, ferr,
          rpc, rin, rurl, rname, rresp, rres, rnet, spc, sargs, scur, scalls, sres,
          lcache, lclock, lused, lop>>

----------------------------------------------------------------------------
(* Python values *)

None == <<"none">>
PyStr(s) == <<"str", s>>
PyInt(n) == <<"int", n>>
PyList(l) == <<"list", l>>

IsNone(v) == v[1] = "none"
IsStr(v) == v[1] = "str"
IsInt(v) == v[1] = "int"
IsList(v) == v[1] = "list"

EmptyMap == [k \in {} |-> None]

\* dict.get(key): None when the key is absent
Get(d, k) == IF k \in DOMAIN d THEN d[k] ELSE None

\* d[key] = value
Put(d, k, v) == [x \in (DOMAIN d) \cup {k} |-> IF x = k THEN v ELSE d[x]]

\* d.pop(key, None)
Pop(d, k) == [x \in (DOMAIN d) \ {k} |-> d[x]]

\* Python truthiness of the values used here
Truthy(v) ==
    CASE IsNone(v) -> FALSE
      [] IsStr(v) -> v[2] # <<>>
      [] IsInt(v) -> v[2] # 0
      [] IsList(v) -> v[2] # <<>>

\* a or b
Or(a, b) == IF Truthy(a) THEN a ELSE b

RECURSIVE LStrip(_)
LStrip(s) == IF s # <<>> /\ Head(s) = " " THEN LStrip(Tail(s)) ELSE s

RECURSIVE RStrip(_)
RStrip(s) ==
    IF s # <<>> /\ s[Len(s)] = " " THEN RStrip(SubSeq(s, 1, Len(s) - 1)) ELSE s

\* str.strip()
Strip(s) == RStrip(LStrip(s))

\* _normalise_str: strip, and None for an empty result
_normalise_str(value) ==
    IF IsNone(value) THEN None
    ELSE IF Strip(value[2]) = <<>> THEN None ELSE PyStr(Strip(value[2]))

Digits == <<"0", "1", "2", "3", "4", "5", "6", "7", "8", "9">>
IsDigit(c) == \E i \in 1..10 : Digits[i] = c
DigitVal(c) == (CHOOSE i \in 1..10 : Digits[i] = c) - 1

RECURSIVE DecVal(_)
DecVal(s) == IF s = <<>> THEN 0 ELSE 10 * DecVal(SubSeq(s, 1, Len(s) - 1)) + DigitVal(s[Len(s)])

\* int(value) succeeds: an int, or a string of digits (surrounding blanks allowed)
IntOk(v) ==
    \/ IsInt(v)
    \/ /\ IsStr(v)
       /\ Strip(v[2]) # <<>>
       /\ \A i \in 1..Len(Strip(v[2])) : IsDigit(Strip(v[2])[i])

IntOf(v) == IF IsInt(v) THEN v[2] ELSE DecVal(Strip(v[2]))

----------------------------------------------------------------------------
(* Results: a value or a raised error.  err = "" means no error. *)

Ok(v) == [err |-> "", val |-> v]
Raise(msg) == [err |-> msg, val |-> None]
Failed(r) == r.err # ""

\* _validate_positive_int
_validate_positive_int(value, label) ==
    IF IsNone(value) THEN Raise(label \o " is required")
    ELSE IF ~IntOk(value) THEN Raise(label \o " must be a positive integer")
    ELSE IF ~(IntOf(value) > 0) THEN Raise(label \o " must be a positive integer")
    ELSE Ok(PyInt(IntOf(value)))

\* _optional_positive_int
_optional_positive_int(value, label) ==
    IF IsNone(value) THEN Ok(None) ELSE _validate_positive_int(value, label)

\* _optional_non_negative_int
_optional_non_negative_int(value, label) ==
    IF IsNone(value) THEN Ok(None)
    ELSE IF ~IntOk(value) THEN Raise(label \o " must be a non-negative integer")
    ELSE IF ~(IntOf(value) >= 0) THEN Raise(label \o " must be a non-negative integer")
    ELSE Ok(PyInt(IntOf(value)))

\* _normalise_books: every item validated, the first invalid one raises
RECURSIVE NormaliseBookItems(_)
NormaliseBookItems(l) ==
    IF l = <<>> THEN Ok(<<>>)
    ELSE LET h == _validate_positive_int(Head(l), "Book ID")
             t == NormaliseBookItems(Tail(l))
         IN  IF Failed(h) THEN Raise(h.err)
             ELSE IF Failed(t) THEN Raise(t.err)
             ELSE Ok(<<h.val>> \o t.val)

_normalise_books(collection) ==
    IF IsNone(collection) THEN Ok(None)
    ELSE LET r == NormaliseBookItems(collection[2])
         IN  IF Failed(r) THEN Raise(r.err) ELSE Ok(PyList(r.val))

\* A tag dict {"name": n, "value": v}; a missing key reads as None, like a null.
Tag(n, v) == <<"tag", n, v>>

\* _format_tags
RECURSIVE FormatTagItems(_)
FormatTagItems(l) ==
    IF l = <<>> THEN Ok(<<>>)
    ELSE LET name == Head(l)[2]
             value == Head(l)[3]
             t == FormatTagItems(Tail(l))
         IN  IF ~Truthy(name) THEN Raise("Tag entries require a non-empty 'name'")
             ELSE IF IsNone(value) THEN Raise("Tag entries require a 'value'")
             ELSE IF Failed(t) THEN Raise(t.err)
             ELSE Ok(<<Tag(name, value)>> \o t.val)

_format_tags(tags) ==
    IF IsNone(tags) THEN Ok(None)
    ELSE LET r == FormatTagItems(tags[2])
         IN  IF Failed(r) THEN Raise(r.err) ELSE Ok(PyList(r.val))

\* the payload as it is, with nothing dropped
MutCompactKeepsEmpty(data) == data

\* _compact_payload: drop keys whose value is None or the empty string
_compact_payload(data) ==
    [k \in {x \in DOMAIN data : ~IsNone(data[x]) /\ data[x] # PyStr(<<>>)} |-> data[k]]

(* The `updates` / item `data` argument: None, a mapping, or a JSON text.   *)
(* A JSON text is kept parsed: blank, not JSON, a JSON value that is no     *)
(* object, or an object.                                                     *)
NoUpdates == [kind |-> "none", map |-> EmptyMap]
MapUpdates(m) == [kind |-> "map", map |-> m]
JsonObjectText(m) == [kind |-> "text_object", map |-> m]
JsonBlankText == [kind |-> "text_blank", map |-> EmptyMap]
JsonGarbageText == [kind |-> "text_garbage", map |-> EmptyMap]
JsonArrayText == [kind |-> "text_array", map |-> EmptyMap]

\* _coerce_json_object
_coerce_json_object(value, label) ==
    CASE value.kind = "none" -> Ok(EmptyMap)
      [] value.kind = "map" -> Ok(value.map)
      [] value.kind = "text_blank" -> Ok(EmptyMap)
      [] value.kind = "text_garbage" -> Raise(label \o " must contain valid JSON")
      [] value.kind = "text_array" -> Raise(label \o " must be a JSON object")
      [] value.kind = "text_object" -> Ok(value.map)

----------------------------------------------------------------------------
(* PreparedOperation and the operation compiler *)

_ENTITY_BASE_PATHS ==
    [book |-> "/api/books", bookshelf |-> "/api/bookshelves",
     chapter |-> "/api/chapters", page |-> "/api/pages"]

EntityTypes == {"book", "bookshelf", "chapter", "page"}
Operations == {"create", "read", "update", "delete"}

NoBody == [present |-> FALSE, body |-> EmptyMap]
Body(p) == [present |-> TRUE, body |-> p]

\* PreparedOperation(method, path, json); params is always None here.
\* A path is <<base>> or <<base, id>>, standing for f"{base_path}/{entity_id}".
PreparedOperation(method, path, json) ==
    [err |-> "", method |-> method, path |-> path, json |-> json]

\* a raised ToolError (or other exception): no PreparedOperation
CompileError(msg) == [err |-> msg, method |-> "", path |-> <<>>, json |-> NoBody]

MutIdPathBaseOnly(base_path, entity_id) == <<base_path>>

IdPath(base_path, entity_id) == <<base_path, entity_id[2]>>

\* lines 1199-1226 (create) and 1286-1314 (update): markdown / content / html
PageContent(payload, a) ==
    LET markdown0 == Get(payload, "markdown")
        html0 == Get(payload, "html")
        markdown1 == IF ~IsNone(a.markdown) THEN a.markdown
                     ELSE IF ~IsNone(a.content) /\ IsNone(markdown0) THEN a.content
                     ELSE markdown0
        html1 == IF ~IsNone(a.html) THEN a.html ELSE html0
        markdown_value == IF IsStr(markdown1) THEN _normalise_str(markdown1) ELSE markdown1
        html_value == IF IsStr(html1) THEN _normalise_str(html1) ELSE html1
        p1 == IF ~IsNone(markdown_value) THEN Put(payload, "markdown", markdown_value)
              ELSE Pop(payload, "markdown")
        p2 == IF ~IsNone(html_value) THEN Put(p1, "html", html_value)
              ELSE Pop(p1, "html")
    IN  IF Truthy(markdown_value) /\ Truthy(html_value)
        THEN Raise("Provide either markdown/content or html, not both")
        ELSE Ok(p2)

\* priority handling of create (chapter, page): set when given, else dropped
CreatePriority(payload, a) ==
    LET chosen == IF ~IsNone(a.priority) THEN a.priority ELSE Get(payload, "priority")
        r == _optional_non_negative_int(chosen, "'priority'")
    IN  IF Failed(r) THEN Raise(r.err)
        ELSE IF ~IsNone(r.val) THEN Ok(Put(payload, "priority", r.val))
        ELSE Ok(Pop(payload, "priority"))

\* priority handling of update (chapter, page): set only when given
UpdatePriority(payload, a) ==
    LET chosen == IF ~IsNone(a.priority) THEN a.priority ELSE Get(payload, "priority")
        r == _optional_non_negative_int(chosen, "'priority'")
    IN  IF IsNone(chosen) THEN Ok(payload)
        ELSE IF Failed(r) THEN Raise(r.err)
        ELSE Ok(Put(payload, "priority", r.val))

\* description of bookshelf and chapter create: the explicit argument first
CreateDescription(payload, a) ==
    LET description_value ==
            Or(_normalise_str(a.description), _normalise_str(Get(payload, "description")))
    IN  IF ~IsNone(description_value) THEN Put(payload, "description", description_value)
        ELSE payload

\* books of a bookshelf (create and update): the explicit argument first
ShelfBooks(payload, a) ==
    LET shelf_books == IF ~IsNone(a.books) THEN a.books ELSE Get(payload, "books")
        r == _normalise_books(shelf_books)
    IN  IF Failed(r) THEN Raise(r.err)
        ELSE IF ~IsNone(r.val) THEN Ok(Put(payload, "books", r.val))
        ELSE Ok(Pop(payload, "books"))

CreateBook(payload, a) ==
    LET description_value ==
            Or(_normalise_str(Get(payload, "description")), _normalise_str(a.description))
        p1 == Put(payload, "description", description_value)
        image_value == IF ~IsNone(Get(p1, "image_id")) THEN Get(p1, "image_id")
                       ELSE a.image_id
        r == _validate_positive_int(image_value, "'image_id'")
    IN  IF IsNone(description_value)
        THEN Raise("'description' is required when creating a book")
        ELSE IF IsNone(image_value) THEN Ok(p1)
        ELSE IF Failed(r) THEN Raise(r.err)
        ELSE Ok(Put(p1, "image_id", r.val))

CreateBookshelf(payload, a) == ShelfBooks(CreateDescription(payload, a), a)

CreateChapter(payload, a) ==
    LET chapter_book_id == IF ~IsNone(Get(payload, "book_id")) THEN Get(payload, "book_id")
                           ELSE a.book_id
        r == _validate_positive_int(chapter_book_id, "'book_id'")
    IN  IF Failed(r) THEN Raise(r.err)
        ELSE CreatePriority(CreateDescription(Put(payload, "book_id", r.val), a), a)

\* CreatePage without the test of lines 1184-1189
MutCreatePageScopeOptional(payload, a) ==
    LET book_value == _optional_positive_int(
            IF ~IsNone(Get(payload, "book_id")) THEN Get(payload, "book_id") ELSE a.book_id,
            "'book_id'")
        chapter_value == _optional_positive_int(
            IF ~IsNone(Get(payload, "chapter_id")) THEN Get(payload, "chapter_id")
            ELSE a.chapter_id, "'chapter_id'")
        p1 == IF ~IsNone(book_value.val) THEN Put(payload, "book_id", book_value.val)
              ELSE Pop(payload, "book_id")
        p2 == IF ~IsNone(chapter_value.val) THEN Put(p1, "chapter_id", chapter_value.val)
              ELSE Pop(p1, "chapter_id")
        c == PageContent(p2, a)
    IN  IF Failed(book_value) THEN Raise(book_value.err)
        ELSE IF Failed(chapter_value) THEN Raise(chapter_value.err)
        ELSE IF Failed(c) THEN Raise(c.err)
        ELSE CreatePriority(c.val, a)

CreatePage(payload, a) ==
    LET page_book_id == IF ~IsNone(Get(payload, "book_id")) THEN Get(payload, "book_id")
                        ELSE a.book_id
        page_chapter_id == IF ~IsNone(Get(payload, "chapter_id"))
                           THEN Get(payload, "chapter_id") ELSE a.chapter_id
        book_value == _optional_positive_int(page_book_id, "'book_id'")
        chapter_value == _optional_positive_int(page_chapter_id, "'chapter_id'")
        p1 == IF ~IsNone(book_value.val) THEN Put(payload, "book_id", book_value.val)
              ELSE Pop(payload, "book_id")
        p2 == IF ~IsNone(chapter_value.val) THEN Put(p1, "chapter_id", chapter_value.val)
              ELSE Pop(p1, "chapter_id")
        c == PageContent(p2, a)
    IN  IF Failed(book_value) THEN Raise(book_value.err)
        ELSE IF Failed(chapter_value) THEN Raise(chapter_value.err)
        ELSE IF IsNone(book_value.val) /\ IsNone(chapter_value.val)
        THEN Raise("Provide either 'book_id' or 'chapter_id' when creating a page")
        ELSE IF Failed(c) THEN Raise(c.err)
        ELSE CreatePriority(c.val, a)

\* operation == "create", after the tags: lines 1142-1242
BuildCreate(entity_type, payload, a) ==
    LET name_value == Or(_normalise_str(Get(payload, "name")), _normalise_str(a.name))
        p1 == Put(payload, "name", name_value)
        r == CASE entity_type = "book" -> CreateBook(p1, a)
               [] entity_type = "bookshelf" -> CreateBookshelf(p1, a)
               [] entity_type = "chapter" -> CreateChapter(p1, a)
               [] entity_type = "page" -> CreatePage(p1, a)
    IN  IF IsNone(name_value) THEN CompileError("'name' is required when creating an entity")
        ELSE IF Failed(r) THEN CompileError(r.err)
        ELSE PreparedOperation("POST", <<_ENTITY_BASE_PATHS[entity_type]>>,
                               Body(_compact_payload(r.val)))

UpdateBook(payload, a) ==
    LET image_value == IF ~IsNone(a.image_id) THEN a.image_id ELSE Get(payload, "image_id")
        r == _validate_positive_int(image_value, "'image_id'")
    IN  IF IsNone(image_value) THEN Ok(payload)
        ELSE IF Failed(r) THEN Raise(r.err)
        ELSE Ok(Put(payload, "image_id", r.val))

UpdateChapter(payload, a) ==
    LET chapter_book == IF ~IsNone(a.book_id) THEN a.book_id ELSE Get(payload, "book_id")
        r == _validate_positive_int(chapter_book, "'book_id'")
    IN  IF IsNone(chapter_book) THEN UpdatePriority(payload, a)
        ELSE IF Failed(r) THEN Raise(r.err)
        ELSE UpdatePriority(Put(payload, "book_id", r.val), a)

UpdatePage(payload, a) ==
    LET page_book == IF ~IsNone(a.book_id) THEN a.book_id ELSE Get(payload, "book_id")
        page_chapter == IF ~IsNone(a.chapter_id) THEN a.chapter_id
                        ELSE Get(payload, "chapter_id")
        rb == _validate_positive_int(page_book, "'book_id'")
        rc == _validate_positive_int(page_chapter, "'chapter_id'")
        p1 == IF IsNone(page_book) THEN payload ELSE Put(payload, "book_id", rb.val)
        p2 == IF IsNone(page_chapter) THEN p1 ELSE Put(p1, "chapter_id", rc.val)
        c == PageContent(p2, a)
    IN  IF ~IsNone(page_book) /\ Failed(rb) THEN Raise(rb.err)
        ELSE IF ~IsNone(page_chapter) /\ Failed(rc) THEN Raise(rc.err)
        ELSE IF Failed(c) THEN Raise(c.err)
        ELSE UpdatePriority(c.val, a)

\* lines 1326-1335: the compacted payload must not be empty, unless a book
\* update carries a cover_image
MutAllowEmptyAnyEntity(entity_type, a, payload) ==
    payload # EmptyMap \/ ~IsNone(a.cover_image)

UpdateHasFields(entity_type, a, payload) ==
    LET allow_empty == entity_type = "book" /\ ~IsNone(a.cover_image)
    IN  payload # EmptyMap \/ allow_empty

\* operation == "update", after the tags: lines 1244-1335
BuildUpdate(entity_type, payload, a) ==
    LET p1 == IF ~IsNone(a.name) THEN Put(payload, "name", Or(_normalise_str(a.name), a.name))
              ELSE payload
        p2 == IF ~IsNone(a.description)
              THEN Put(p1, "description", Or(_normalise_str(a.description), a.description))
              ELSE p1
        r == CASE entity_type = "book" -> UpdateBook(p2, a)
               [] entity_type = "bookshelf" -> ShelfBooks(p2, a)
               [] entity_type = "chapter" -> UpdateChapter(p2, a)
               [] entity_type = "page" -> UpdatePage(p2, a)
    IN  IF IsNone(a.entity_id) THEN CompileError("'id' is required when updating an entity")
        ELSE IF Failed(r) THEN CompileError(r.err)
        ELSE IF ~UpdateHasFields(entity_type, a, _compact_payload(r.val))
        THEN CompileError("Provide at least one field to update")
        ELSE PreparedOperation("PUT", IdPath(_ENTITY_BASE_PATHS[entity_type], a.entity_id),
                               Body(_compact_payload(r.val)))

\* _build_content_operation
_build_content_operation(operation, entity_type, a) ==
    LET base_path == _ENTITY_BASE_PATHS[entity_type]
        coerced == _coerce_json_object(a.updates, "'updates'")
        formatted_tags == _format_tags(a.tags)
        payload == IF ~IsNone(formatted_tags.val)
                   THEN Put(coerced.val, "tags", formatted_tags.val)
                   ELSE coerced.val
    IN  CASE operation = "read" ->
               IF IsNone(a.entity_id)
               THEN CompileError("'id' is required when reading an entity")
               ELSE PreparedOperation("GET", IdPath(base_path, a.entity_id), NoBody)
          [] operation = "delete" ->
               IF IsNone(a.entity_id)
               THEN CompileError("'id' is required when deleting an entity")
               ELSE PreparedOperation("DELETE", IdPath(base_path, a.entity_id), NoBody)
          [] operation \in {"create", "update"} ->
               IF Failed(coerced) THEN CompileError(coerced.err)
               ELSE IF Failed(formatted_tags) THEN CompileError(formatted_tags.err)
               ELSE IF operation = "create" THEN BuildCreate(entity_type, payload, a)
               ELSE BuildUpdate(entity_type, payload, a)

\* the keyword arguments of _build_content_operation, all None
NoArgs ==
    [entity_id |-> None, name |-> None, description |-> None, content |-> None,
     markdown |-> None, html |-> None, cover_image |-> None, updates |-> NoUpdates,
     book_id |-> None, chapter_id |-> None, books |-> None, tags |-> None,
     image_id |-> None, priority |-> None]

----------------------------------------------------------------------------
(* Inputs of bookstack_manage_content.  An invocation is a baseline call    *)
(* (the fields its operation requires, given as arguments or through        *)
(* `updates`) with at most MaxChanges arguments or `updates` keys changed.  *)

MaxChanges == 2

StrSamples == {PyStr(<<>>), PyStr(<<" ">>), PyStr(<<" ", "A">>), PyStr(<<"B">>)}
IntSamples == {PyInt(0), PyInt(1), PyInt(2)}
BooksSamples == {PyList(<<>>), PyList(<<PyInt(1)>>), PyList(<<PyInt(2), PyInt(0)>>)}
TagsSamples ==
    {PyList(<<>>),
     PyList(<<Tag(PyStr(<<"k">>), PyStr(<<>>))>>),
     PyList(<<Tag(PyStr(<<"k">>), PyStr(<<"v">>)), Tag(PyStr(<<>>), PyStr(<<"v">>))>>),
     PyList(<<Tag(PyStr(<<"k">>), None)>>)}

StrFields == {"name", "description", "content", "markdown", "html", "cover_image"}
IntFields == {"book_id", "chapter_id", "image_id", "priority"}
_CONTENT_KNOWN_FIELDS == StrFields \cup IntFields \cup {"books", "tags"}

SamplesOf(field) ==
    CASE field \in StrFields -> StrSamples
      [] field \in IntFields -> IntSamples
      [] field = "books" -> BooksSamples
      [] field = "tags" -> TagsSamples
      [] field = "entity_id" -> {PyInt(7)}
      [] field = "slug" -> {PyStr(<<"s">>)}

UpdatesKinds == {"none", "map", "text_object", "text_blank", "text_garbage", "text_array"}

\* a change of one argument, of one key of `updates`, or of the form of `updates`
Changes ==
    {[where |-> "arg", name |-> f, absent |-> FALSE, val |-> v] :
        f \in _CONTENT_KNOWN_FIELDS \cup {"entity_id"}, v \in {None}} \cup
    UNION {{[where |-> "arg", name |-> f, absent |-> FALSE, val |-> v] : v \in SamplesOf(f)} :
        f \in _CONTENT_KNOWN_FIELDS \cup {"entity_id"}} \cup
    {[where |-> "key", name |-> f, absent |-> b, val |-> None] :
        f \in _CONTENT_KNOWN_FIELDS \cup {"slug"}, b \in BOOLEAN} \cup
    UNION {{[where |-> "key", name |-> f, absent |-> FALSE, val |-> v] : v \in SamplesOf(f)} :
        f \in _CONTENT_KNOWN_FIELDS \cup {"slug"}} \cup
    {[where |-> "kind", name |-> k, absent |-> FALSE, val |-> None] : k \in UpdatesKinds}

ApplyChange(a, c) ==
    CASE c.where = "arg" -> [a EXCEPT ![c.name] = c.val]
      [] c.where = "key" ->
            [a EXCEPT !.updates.map = IF c.absent THEN Pop(@, c.name) ELSE Put(@, c.name, c.val)]
      [] c.where = "kind" -> [a EXCEPT !.updates.kind = c.name]

\* only a mapping or a JSON object text carries keys
NormaliseUpdates(a) ==
    IF a.updates.kind \in {"map", "text_object"} THEN a
    ELSE [a EXCEPT !.updates.map = EmptyMap]

BaseName == PyStr(<<"D">>)
BaseDescription == PyStr(<<"H">>)
BaseBookId == PyInt(1)

RequiredFields(operation, entity_type) ==
    IF operation # "create" THEN {}
    ELSE CASE entity_type = "book" -> {"name", "description"}
           [] entity_type = "bookshelf" -> {"name"}
           [] entity_type \in {"chapter", "page"} -> {"name", "book_id"}

BaseValue(field) ==
    CASE field = "name" -> BaseName
      [] field = "description" -> BaseDescription
      [] field = "book_id" -> BaseBookId

BaselineArgs(operation, entity_type, src) ==
    LET req == RequiredFields(operation, entity_type)
        a0 == [NoArgs EXCEPT !.updates = MapUpdates(EmptyMap),
                             !.entity_id = IF operation = "create" THEN None ELSE PyInt(7)]
    IN  IF src = "args"
        THEN [f \in DOMAIN a0 |-> IF f \in req THEN BaseValue(f) ELSE a0[f]]
        ELSE [a0 EXCEPT !.updates = MapUpdates([f \in req |-> BaseValue(f)])]

RECURSIVE ChangedArgs(_, _)
ChangedArgs(a, k) ==
    IF k = 0 THEN {a}
    ELSE ChangedArgs(a, k - 1) \cup
         {ApplyChange(b, c) : b \in ChangedArgs(a, k - 1), c \in Changes}

\* read and delete return before any other argument is looked at: one change
ContentInvocations(operation, entity_type) ==
    LET srcs == IF operation = "create" THEN {"args", "updates"} ELSE {"args"}
        k == IF operation \in {"read", "delete"} THEN 1 ELSE MaxChanges
    IN  UNION {{NormaliseUpdates(a) : a \in ChangedArgs(BaselineArgs(operation, entity_type, src), k)} :
               src \in srcs}

----------------------------------------------------------------------------
(* bookstack_manage_content *)

NoReq == [operation |-> "", entity_type |-> "", a |-> NoArgs]
NoRes == CompileError("")

CompileInit ==
    /\ creq = NoReq
    /\ cres = NoRes

\* lines 1484-1501: the call of _build_content_operation
ContentCompile ==
    /\ creq = NoReq
    /\ \E operation \in Operations, entity_type \in EntityTypes :
         \E a \in ContentInvocations(operation, entity_type) :
            /\ creq' = [operation |-> operation, entity_type |-> entity_type, a |-> a]
            /\ cres' = _build_content_operation(operation, entity_type, a)
    /\ UNCHANGED <<batchVars, cacheVars, toolVars, fetchVars, extraVars>>

\* the invocation returns (or raises)
ContentReturn ==
    /\ creq # NoReq
    /\ creq' = NoReq
    /\ cres' = NoRes
    /\ UNCHANGED <<batchVars, cacheVars, toolVars, fetchVars, extraVars>>

----------------------------------------------------------------------------
(* bookstack_batch_operations *)

MaxItems == 3
MaxBatchSize == 2

BatchOperations == {"bulk_create", "bulk_update", "bulk_delete"}

\* _extract_known_fields, read back with kwargs.get(field)
_extract_known_fields(data) ==
    [f \in (DOMAIN data) \cap _CONTENT_KNOWN_FIELDS |-> data[f]]

\* the keyword arguments build_prepared passes for bulk_create and bulk_update
ItemArgs(entity_id, data) ==
    LET kwargs == _extract_known_fields(data)
    IN  [f \in DOMAIN NoArgs |->
            CASE f = "entity_id" -> entity_id
              [] f = "updates" -> MapUpdates(data)
              [] OTHER -> Get(kwargs, f)]

MissingCoverImage ==
    "_build_content_operation() missing 1 required keyword-only argument: 'cover_image'"

\* lines 2174-2192: the delete call passes no cover_image, which the callee requires
BulkDeleteCall(entity_type, item_id) == CompileError(MissingCoverImage)

\* build_prepared (lines 2130-2192)
build_prepared(operation, entity_type, item) ==
    LET item_id == item.id
        data == _coerce_json_object(item.data, "batch item 'data'")
        valid_id == _validate_positive_int(item_id, "'id'")
    IN  IF Failed(data) THEN CompileError(data.err)
        ELSE CASE operation = "bulk_create" ->
                    _build_content_operation("create", entity_type, ItemArgs(None, data.val))
               [] operation = "bulk_update" ->
                    IF IsNone(item_id) THEN CompileError("Each update item requires an 'id'")
                    ELSE IF Failed(valid_id) THEN CompileError(valid_id.err)
                    ELSE _build_content_operation("update", entity_type,
                                                  ItemArgs(valid_id.val, data.val))
               [] operation = "bulk_delete" ->
                    IF IsNone(item_id) THEN CompileError("Each delete item requires an 'id'")
                    ELSE IF Failed(valid_id) THEN CompileError(valid_id.err)
                    ELSE BulkDeleteCall(entity_type, valid_id.val)

\* items a caller may pass
ItemData == (("name" :> BaseName) @@ ("description" :> BaseDescription) @@ ("book_id" :> BaseBookId))

ItemSamples ==
    {[id |-> PyInt(7), data |-> MapUpdates(ItemData)],
     [id |-> None, data |-> JsonObjectText(Put(ItemData, "markdown", PyStr(<<"B">>)))],
     [id |-> PyInt(7), data |-> JsonGarbageText],
     [id |-> PyInt(0), data |-> MapUpdates(Put(Put(ItemData, "content", PyStr(<<"B">>)),
                                               "html", PyStr(<<"B">>)))]}

ItemLists == UNION {[1..n -> ItemSamples] : n \in 0..MaxItems}
BatchSizes == {None} \cup {PyInt(n) : n \in 0..MaxBatchSize}

NoBatch ==
    [operation |-> "", entity_type |-> "", items |-> <<>>, continue_on_error |-> TRUE,
     batch_size |-> None, dry_run |-> FALSE]
NoPrev == [set |-> FALSE, results |-> <<>>, errors |-> <<>>]

TransportFailure == "BookStack API request failed"

total == Len(binp.items)

\* len(batch_slice), batch_slice = items[index : index + (batch_size or total)]
SliceLen(index) ==
    LET size == IF Truthy(binp.batch_size) THEN binp.batch_size[2] ELSE total
    IN  IF index + size <= total THEN size ELSE total - index

item_index == bidx + boff
CurrentItem == binp.items[item_index + 1]

\* the dry-run record of a prepared request (lines 2202-2210)
MutDryRecordNoPayload(index, p) ==
    [index |-> index, method |-> p.method, path |-> p.path,
     params |-> None, payload |-> NoBody]

DryRecord(index, p) ==
    [index |-> index, method |-> p.method, path |-> p.path,
     params |-> None, payload |-> p.json]

\* the arguments of _bookstack_request (lines 2213-2218)
RequestOf(index, p) ==
    [index |-> index, method |-> p.method, path |-> p.path,
     params |-> None, json |-> p.json]

BatchInit ==
    /\ bpc = "idle"
    /\ binp = NoBatch
    /\ bidx = 0
    /\ boff = 0
    /\ prepared = NoRes
    /\ successes = <<>>
    /\ errors = <<>>
    /\ calls = <<>>
    /\ built = <<>>
    /\ prev = NoPrev

\* the call: batch_size is validated first (lines 2123-2128)
BatchStart ==
    /\ bpc = "idle"
    /\ \E operation \in BatchOperations, entity_type \in EntityTypes, items \in ItemLists,
          continue_on_error \in BOOLEAN, batch_size \in BatchSizes, dry_run \in BOOLEAN :
         /\ binp' = [operation |-> operation, entity_type |-> entity_type, items |-> items,
                     continue_on_error |-> continue_on_error, batch_size |-> batch_size,
                     dry_run |-> dry_run]
         /\ bpc' = IF Failed(_optional_positive_int(batch_size, "'batch_size'"))
                   THEN "failed" ELSE "loop"
    /\ UNCHANGED <<bidx, boff, prepared, successes, errors, calls, built, prev>>
    /\ UNCHANGED <<compileVars, cacheVars, toolVars, fetchVars, extraVars>>

\* what `break` / falling through to the next item does after an error
MutAfterErrorAlwaysContinue == <<"loop", boff + 1>>

MutAfterErrorAlwaysBreak == <<"done", boff>>

MutAfterErrorLeavesSliceOnly ==
    IF binp.continue_on_error THEN <<"loop", boff + 1>> ELSE <<"loop", SliceLen(bidx)>>

AfterError == IF binp.continue_on_error THEN <<"loop", boff + 1>> ELSE <<"done", boff>>

\* line 2200: prepared = build_prepared(item), which returns or raises
BatchItemBuild ==
    /\ bpc = "loop"
    /\ bidx < total
    /\ boff < SliceLen(bidx)
    /\ prepared' = build_prepared(binp.operation, binp.entity_type, CurrentItem)
    /\ built' = Append(built, item_index)
    /\ bpc' = "built"
    /\ UNCHANGED <<binp, bidx, boff, successes, errors, calls, prev>>
    /\ UNCHANGED <<compileVars, cacheVars, toolVars, fetchVars, extraVars>>

\* build_prepared raised: the error is recorded (lines 2225-2232)
BatchItemError ==
    /\ bpc = "built"
    /\ Failed(prepared)
    /\ errors' = Append(errors, [index |-> item_index, error |-> prepared.err])
    /\ bpc' = AfterError[1]
    /\ boff' = AfterError[2]
    /\ prepared' = NoRes
    /\ UNCHANGED <<binp, bidx, successes, calls, built, prev>>
    /\ UNCHANGED <<compileVars, cacheVars, toolVars, fetchVars, extraVars>>

\* dry run: the prepared request is recorded, nothing is sent (lines 2201-2211)
MutBatchItemDrySends ==
    /\ bpc = "built"
    /\ ~Failed(prepared)
    /\ binp.dry_run
    /\ calls' = Append(calls, RequestOf(item_index, prepared))
    /\ successes' = Append(successes, DryRecord(item_index, prepared))
    /\ bpc' = "loop"
    /\ boff' = boff + 1
    /\ prepared' = NoRes
    /\ UNCHANGED <<binp, bidx, errors, built, prev>>
    /\ UNCHANGED <<compileVars, cacheVars, toolVars, fetchVars, extraVars>>

BatchItemDry ==
    /\ bpc = "built"
    /\ ~Failed(prepared)
    /\ binp.dry_run
    /\ successes' = Append(successes, DryRecord(item_index, prepared))
    /\ bpc' = "loop"
    /\ boff' = boff + 1
    /\ prepared' = NoRes
    /\ UNCHANGED <<binp, bidx, errors, calls, built, prev>>
    /\ UNCHANGED <<compileVars, cacheVars, toolVars, fetchVars, extraVars>>

\* the request is sent and answered (lines 2213-2224)
BatchItemSendOk ==
    /\ bpc = "built"
    /\ ~Failed(prepared)
    /\ ~binp.dry_run
    /\ calls' = Append(calls, RequestOf(item_index, prepared))
    /\ successes' = Append(successes, [index |-> item_index, result |-> "response"])
    /\ bpc' = "loop"
    /\ boff' = boff + 1
    /\ prepared' = NoRes
    /\ UNCHANGED <<binp, bidx, errors, built, prev>>
    /\ UNCHANGED <<compileVars, cacheVars, toolVars, fetchVars, extraVars>>

\* the request is sent and _bookstack_request raises (lines 2213-2232)
BatchItemSendFail ==
    /\ bpc = "built"
    /\ ~Failed(prepared)
    /\ ~binp.dry_run
    /\ calls' = Append(calls, RequestOf(item_index, prepared))
    /\ errors' = Append(errors, [index |-> item_index, error |-> TransportFailure])
    /\ bpc' = AfterError[1]
    /\ boff' = AfterError[2]
    /\ prepared' = NoRes
    /\ UNCHANGED <<binp, bidx, successes, built, prev>>
    /\ UNCHANGED <<compileVars, cacheVars, toolVars, fetchVars, extraVars>>

\* the inner loop ends without break: index += len(batch_slice) (lines 2233-2235)
MutBatchSliceEndNoAdvance ==
    /\ bpc = "loop"
    /\ bidx < total
    /\ boff = SliceLen(bidx)
    /\ bidx' = bidx
    /\ boff' = 0
    /\ UNCHANGED <<bpc, binp, prepared, successes, errors, calls, built, prev>>
    /\ UNCHANGED <<compileVars, cacheVars, toolVars, fetchVars, extraVars>>

BatchSliceEnd ==
    /\ bpc = "loop"
    /\ bidx < total
    /\ boff = SliceLen(bidx)
    /\ bidx' = bidx + SliceLen(bidx)
    /\ boff' = 0
    /\ UNCHANGED <<bpc, binp, prepared, successes, errors, calls, built, prev>>
    /\ UNCHANGED <<compileVars, cacheVars, toolVars, fetchVars, extraVars>>

\* the outer loop ends: the result is returned (lines 2238-2247)
BatchReturn ==
    /\ bpc = "loop"
    /\ bidx >= total
    /\ bpc' = "done"
    /\ UNCHANGED <<binp, bidx, boff, prepared, successes, errors, calls, built, prev>>
    /\ UNCHANGED <<compileVars, cacheVars, toolVars, fetchVars, extraVars>>

\* the caller repeats a finished dry run with dry_run = false
BatchRepeatLive ==
    /\ bpc = "done"
    /\ binp.dry_run
    /\ ~prev.set
    /\ prev' = [set |-> TRUE, results |-> successes, errors |-> errors]
    /\ binp' = [binp EXCEPT !.dry_run = FALSE]
    /\ bpc' = "loop"
    /\ bidx' = 0
    /\ boff' = 0
    /\ prepared' = NoRes
    /\ successes' = <<>>
    /\ errors' = <<>>
    /\ calls' = <<>>
    /\ built' = <<>>
    /\ UNCHANGED <<compileVars, cacheVars, toolVars, fetchVars, extraVars>>

\* the caller is done with the result
BatchReset ==
    /\ bpc \in {"done", "failed"}
    /\ bpc' = "idle"
    /\ binp' = NoBatch
    /\ bidx' = 0
    /\ boff' = 0
    /\ prepared' = NoRes
    /\ successes' = <<>>
    /\ errors' = <<>>
    /\ calls' = <<>>
    /\ built' = <<>>
    /\ prev' = NoPrev
    /\ UNCHANGED <<compileVars, cacheVars, toolVars, fetchVars, extraVars>>

----------------------------------------------------------------------------
(* bookstack_manage_images and the image list cache *)

_LIST_CACHE_TTL_SECONDS == 30

NumInv == 2
MaxTicks == 3
MaxMutations == 2

Invs == 1..NumInv

\* the clock advances in steps of half the TTL
TickSeconds == _LIST_CACHE_TTL_SECONDS \div 2

\* A dict with insertion order: a sequence of <<key, value>> with distinct keys.
DictHas(d, k) == \E j \in 1..Len(d) : d[j][1] = k
DictSet(d, k, v) ==
    IF DictHas(d, k) THEN [j \in 1..Len(d) |-> IF d[j][1] = k THEN <<k, v>> ELSE d[j]]
    ELSE Append(d, <<k, v>>)

\* the parameter keys in the order Python's sorted() gives them
SortedParamKeys == <<"count", "filter[name]", "filter[type]", "offset", "sort">>

\* a filter entry {"key": k, "value": v}; the sample keys carry no surrounding blanks
Filter(k, v) == [key |-> k, value |-> v]

\* _normalise_filters
RECURSIVE NormaliseFilterItems(_)
NormaliseFilterItems(l) ==
    IF l = <<>> THEN Ok(<<>>)
    ELSE LET t == NormaliseFilterItems(Tail(l))
         IN  IF Head(l).key = "" THEN Raise("Filter entries require a non-empty 'key'")
             ELSE IF IsNone(Head(l).value) THEN Raise("Filter entries require a 'value'")
             ELSE IF Failed(t) THEN Raise(t.err)
             ELSE Ok(<<<<Head(l).key, Head(l).value>>>> \o t.val)

RECURSIVE AddFilters(_, _)
AddFilters(query, filters) ==
    IF filters = <<>> THEN query
    ELSE AddFilters(DictSet(query, "filter[" \o Head(filters)[1] \o "]", Head(filters)[2]),
                    Tail(filters))

\* arguments of a list call
ListArgs(offset, count, sort, filters) ==
    [offset |-> offset, count |-> count, sort |-> sort, filters |-> filters]
NoListArgs == ListArgs(None, None, None, <<>>)

\* lines 1941-1949: the query of a list call
ListQuery(args, normalised_filters) ==
    LET resolved_offset == Or(args.offset, PyInt(0))
        resolved_count == Or(args.count, PyInt(20))
        q0 == <<<<"offset", resolved_offset>>, <<"count", resolved_count>>>>
        q1 == IF Truthy(args.sort) THEN DictSet(q0, "sort", args.sort) ELSE q0
    IN  AddFilters(q1, normalised_filters)

\* sorted(params.items()): the pairs by key
RECURSIVE SortedItems(_, _)
SortedItems(params, keys) ==
    IF keys = <<>> THEN <<>>
    ELSE (IF DictHas(params, Head(keys))
          THEN <<CHOOSE pair \in {params[j] : j \in 1..Len(params)} : pair[1] = Head(keys)>>
          ELSE <<>>) \o SortedItems(params, Tail(keys))

\* _build_list_cache_key: repr of the sorted items, kept as the sequence itself
MutCacheKeyUnsorted(params) == params

_build_list_cache_key(params) == SortedItems(params, SortedParamKeys)

\* CacheEntry(timestamp, data, metadata); metadata never carries "cached"
NoEntry == [present |-> FALSE, timestamp |-> 0, data |-> 0]
CacheEntry(timestamp, data) == [present |-> TRUE, timestamp |-> timestamp, data |-> data]
EmptyCache == [k \in {} |-> NoEntry]

\* _LIST_CACHE.get(cache_key)
CacheGet(cache, cache_key) == IF cache_key \in DOMAIN cache THEN cache[cache_key] ELSE NoEntry

\* the expiry test of _get_cached_list (line 1082)
MutExpiredAtTTL(entry, time) == time - entry.timestamp >= _LIST_CACHE_TTL_SECONDS

Expired(entry, time) == time - entry.timestamp > _LIST_CACHE_TTL_SECONDS

\* _invalidate_list_cache
MutInvalidateDefaultListOnly(cache) ==
    [k \in (DOMAIN cache) \ {_build_list_cache_key(ListQuery(NoListArgs, <<>>))} |-> cache[k]]

_invalidate_list_cache(cache) == EmptyCache

FiltersNameType == <<Filter("name", PyStr(<<"x">>)), Filter("type", PyStr(<<"g">>))>>
FiltersTypeName == <<Filter("type", PyStr(<<"g">>)), Filter("name", PyStr(<<"x">>))>>

ListArgSamples ==
    {ListArgs(None, None, None, <<>>),
     ListArgs(PyInt(0), PyInt(20), None, FiltersNameType),
     ListArgs(None, None, None, FiltersTypeName),
     ListArgs(PyInt(1), None, PyStr(<<"n">>), <<>>),
     ListArgs(None, PyInt(5), None, <<Filter("", PyStr(<<"x">>))>>)}

\* what concurrent callers ask for
ConcurrentListArgs ==
    {ListArgs(PyInt(0), PyInt(20), None, FiltersNameType),
     ListArgs(None, None, None, FiltersTypeName)}
ConcurrentMutations == {"delete"}

ImageMutations == {"create", "update", "delete"}

\* `started` is history: how many mutations had completed when the call started
IdleInv ==
    [pc |-> "idle", op |-> "", args |-> NoListArgs, cache_key |-> <<>>, entry |-> NoEntry,
     cached |-> FALSE, data |-> 0, sent |-> 0, started |-> 0]

\* history: the query as a mapping, whatever the order it was built in
AsMapping(query) == {query[j] : j \in 1..Len(query)}
NeverStored == [time |-> -1, args |-> NoListArgs, version |-> 0]
StoredAt(mapping) == IF mapping \in DOMAIN stored THEN stored[mapping] ELSE NeverStored
QueryOf(i) == ListQuery(inv[i].args, NormaliseFilterItems(inv[i].args.filters).val)

\* the mutations that have completed: their request was answered and the cache
\* invalidated; each one in between has raised `remote` already
CompletedMutations == remote - Cardinality({j \in Invs : inv[j].pc = "invalidate"})

CacheInit ==
    /\ now = 0
    /\ LIST_CACHE = EmptyCache
    /\ remote = 0
    /\ inv = [i \in Invs |-> IdleInv]
    /\ stored = [m \in {} |-> NeverStored]
    /\ lastDone = ""

\* time passes
Tick ==
    /\ now + TickSeconds <= MaxTicks * TickSeconds
    /\ now' = now + TickSeconds
    /\ UNCHANGED <<LIST_CACHE, remote, inv, stored, lastDone>>
    /\ UNCHANGED <<compileVars, batchVars, toolVars, fetchVars, extraVars>>

\* a list call: the query and its cache key (lines 1941-1951)
ListStart(i, samples) ==
    /\ inv[i].pc = "idle"
    /\ \E args \in samples :
         LET filters == NormaliseFilterItems(args.filters)
         IN  inv' = [inv EXCEPT ![i] =
                 IF Failed(filters)
                 THEN [IdleInv EXCEPT !.pc = "failed", !.op = "list", !.args = args]
                 ELSE [IdleInv EXCEPT !.pc = "lookup", !.op = "list", !.args = args,
                          !.started = CompletedMutations,
                          !.cache_key = _build_list_cache_key(ListQuery(args, filters.val))]]
    /\ UNCHANGED <<now, LIST_CACHE, remote, stored, lastDone>>
    /\ UNCHANGED <<compileVars, batchVars, toolVars, fetchVars, extraVars>>

\* _get_cached_list, line 1079-1081: entry = _LIST_CACHE.get(cache_key)
ListLookup(i) ==
    /\ inv[i].pc = "lookup"
    /\ LET entry == CacheGet(LIST_CACHE, inv[i].cache_key)
       IN  inv' = [inv EXCEPT ![i] =
               IF entry.present THEN [@ EXCEPT !.pc = "check", !.entry = entry]
               ELSE [@ EXCEPT !.pc = "fetch"]]
    /\ UNCHANGED <<now, LIST_CACHE, remote, stored, lastDone>>
    /\ UNCHANGED <<compileVars, batchVars, toolVars, fetchVars, extraVars>>

\* _get_cached_list, lines 1082-1085, and the cached answer (lines 1953-1961)
ListCheck(i) ==
    /\ inv[i].pc = "check"
    /\ IF Expired(inv[i].entry, now)
       THEN /\ LIST_CACHE' = [k \in (DOMAIN LIST_CACHE) \ {inv[i].cache_key} |-> LIST_CACHE[k]]
            /\ inv' = [inv EXCEPT ![i] = [@ EXCEPT !.pc = "fetch", !.entry = NoEntry]]
       ELSE /\ LIST_CACHE' = LIST_CACHE
            /\ inv' = [inv EXCEPT ![i] = [@ EXCEPT !.pc = "done", !.cached = TRUE,
                                                   !.data = inv[i].entry.data]]
    /\ UNCHANGED <<now, remote, stored, lastDone>>
    /\ UNCHANGED <<compileVars, batchVars, toolVars, fetchVars, extraVars>>

\* line 1963: GET /api/image-gallery answers
ListFetchOk(i) ==
    /\ inv[i].pc = "fetch"
    /\ inv' = [inv EXCEPT ![i] = [@ EXCEPT !.pc = "store", !.data = remote, !.sent = 1]]
    /\ UNCHANGED <<now, LIST_CACHE, remote, stored, lastDone>>
    /\ UNCHANGED <<compileVars, batchVars, toolVars, fetchVars, extraVars>>

\* line 1963: GET /api/image-gallery fails, the call raises
ListFetchFail(i) ==
    /\ inv[i].pc = "fetch"
    /\ inv' = [inv EXCEPT ![i] = [@ EXCEPT !.pc = "failed", !.sent = 1]]
    /\ UNCHANGED <<now, LIST_CACHE, remote, stored, lastDone>>
    /\ UNCHANGED <<compileVars, batchVars, toolVars, fetchVars, extraVars>>

\* _set_cached_list (lines 1965, 1088-1089) and the answer
ListStore(i) ==
    /\ inv[i].pc = "store"
    /\ LIST_CACHE' = [k \in (DOMAIN LIST_CACHE) \cup {inv[i].cache_key} |->
                        IF k = inv[i].cache_key THEN CacheEntry(now, inv[i].data)
                        ELSE LIST_CACHE[k]]
    /\ stored' = [m \in (DOMAIN stored) \cup {AsMapping(QueryOf(i))} |->
                    IF m = AsMapping(QueryOf(i))
                    THEN [time |-> now, args |-> inv[i].args, version |-> remote]
                    ELSE stored[m]]
    /\ inv' = [inv EXCEPT ![i] = [@ EXCEPT !.pc = "done"]]
    /\ UNCHANGED <<now, remote, lastDone>>
    /\ UNCHANGED <<compileVars, batchVars, toolVars, fetchVars, extraVars>>

\* an image create, update or delete with valid arguments is called
MutationStart(i, operations) ==
    /\ inv[i].pc = "idle"
    /\ \E op \in operations :
         inv' = [inv EXCEPT ![i] = [IdleInv EXCEPT !.pc = "request", !.op = op]]
    /\ UNCHANGED <<now, LIST_CACHE, remote, stored, lastDone>>
    /\ UNCHANGED <<compileVars, batchVars, toolVars, fetchVars, extraVars>>

\* the request of the mutation is answered (lines 1903, 1926, 1936)
MutationRequestOk(i) ==
    /\ inv[i].pc = "request"
    /\ remote < MaxMutations
    /\ remote' = remote + 1
    /\ inv' = [inv EXCEPT ![i] = [@ EXCEPT !.pc = "invalidate"]]
    /\ UNCHANGED <<now, LIST_CACHE, stored, lastDone>>
    /\ UNCHANGED <<compileVars, batchVars, toolVars, fetchVars, extraVars>>

\* the request of the mutation fails, the call raises
MutationRequestFail(i) ==
    /\ inv[i].pc = "request"
    /\ inv' = [inv EXCEPT ![i] = [@ EXCEPT !.pc = "failed"]]
    /\ UNCHANGED <<now, LIST_CACHE, remote, stored, lastDone>>
    /\ UNCHANGED <<compileVars, batchVars, toolVars, fetchVars, extraVars>>

\* _invalidate_list_cache() after the request (lines 1909, 1932, 1937)
MutationInvalidate(i) ==
    /\ inv[i].pc = "invalidate"
    /\ LIST_CACHE' = _invalidate_list_cache(LIST_CACHE)
    /\ inv' = [inv EXCEPT ![i] = [@ EXCEPT !.pc = "done"]]
    /\ UNCHANGED <<now, remote, stored, lastDone>>
    /\ UNCHANGED <<compileVars, batchVars, toolVars, fetchVars, extraVars>>

\* the call returns or raises
ImageReturn(i) ==
    /\ inv[i].pc \in {"done", "failed"}
    /\ lastDone' = IF inv[i].pc = "failed" THEN lastDone
                   ELSE IF inv[i].op \in ImageMutations THEN "mutation" ELSE "list"
    /\ inv' = [inv EXCEPT ![i] = IdleInv]
    /\ UNCHANGED <<now, LIST_CACHE, remote, stored>>
    /\ UNCHANGED <<compileVars, batchVars, toolVars, fetchVars, extraVars>>

AllIdle == \A i \in Invs : inv[i].pc = "idle"

----------------------------------------------------------------------------
(* Configuration, the transport and the image payload resolver, as          *)
(* bookstack_manage_content and bookstack_manage_images use them.           *)

\* os.environ: a setting is None when it is not in the environment
EnvVars == <<"BS_URL", "BS_TOKEN_ID", "BS_TOKEN_SECRET">>
ConfiguredEnv == [BS_URL |-> PyStr(<<"u">>), BS_TOKEN_ID |-> PyStr(<<"i">>),
                  BS_TOKEN_SECRET |-> PyStr(<<" ", "s">>)]

\* the configured environment, and each setting in turn missing or blank
EnvSamples ==
    {ConfiguredEnv} \cup
    {[ConfiguredEnv EXCEPT ![EnvVars[j]] = v] : j \in 1..3, v \in {None, PyStr(<<" ">>)}}

\* _require_env
_require_env(environ, var) ==
    IF IsNone(environ[var]) THEN Raise("Environment variable '" \o var \o "' is required")
    ELSE IF Strip(environ[var][2]) = <<>>
    THEN Raise("Environment variable '" \o var \o "' cannot be empty")
    ELSE Ok(PyStr(Strip(environ[var][2])))

\* what _bookstack_request and _bookstack_request_form raise before they call
\* requests.request: _bookstack_base_url(), then _bookstack_headers(); "" if nothing
ConfigError(environ) ==
    IF Failed(_require_env(environ, "BS_URL")) THEN _require_env(environ, "BS_URL").err
    ELSE IF Failed(_require_env(environ, "BS_TOKEN_ID"))
    THEN _require_env(environ, "BS_TOKEN_ID").err
    ELSE _require_env(environ, "BS_TOKEN_SECRET").err

\* str(n) of an int
RECURSIVE DecStr(_)
DecStr(n) ==
    IF n < 0 THEN <<"-">> \o DecStr(0 - n)
    ELSE IF n < 10 THEN <<Digits[n + 1]>>
    ELSE DecStr(n \div 10) \o <<Digits[(n % 10) + 1]>>

\* json.dumps of a text of letters, digits and blanks (nothing to escape)
JsonText(s) == <<"\"">> \o s \o <<"\"">>

\* json.dumps of None, an int, a text, a tag dict or a list of these
RECURSIVE JsonDumps(_)
RECURSIVE JsonItems(_)
JsonDumps(v) ==
    CASE v[1] = "none" -> <<"n", "u", "l", "l">>
      [] v[1] = "int" -> DecStr(v[2])
      [] v[1] = "str" -> JsonText(v[2])
      [] v[1] = "tag" ->
            <<"{", "\"", "n", "a", "m", "e", "\"", ":", " ">> \o JsonDumps(v[2]) \o
            <<",", " ", "\"", "v", "a", "l", "u", "e", "\"", ":", " ">> \o JsonDumps(v[3]) \o
            <<"}">>
      [] v[1] = "list" -> <<"[">> \o JsonItems(v[2]) \o <<"]">>
JsonItems(l) ==
    IF l = <<>> THEN <<>>
    ELSE IF Len(l) = 1 THEN JsonDumps(l[1])
    ELSE JsonDumps(l[1]) \o <<",", " ">> \o JsonItems(Tail(l))

\* the value of a form field: a text as it is, a list JSON-encoded, else str(value)
FormValue(value) ==
    IF IsList(value) THEN PyStr(JsonDumps(value))
    ELSE IF IsStr(value) THEN value
    ELSE PyStr(DecStr(value[2]))

\* _prepare_form_data
_prepare_form_data(payload) ==
    [k \in {x \in DOMAIN payload :
              ~IsNone(payload[x]) /\ x \notin {"image_id", "cover_image"}}
       |-> FormValue(payload[k])]

_MAX_IMAGE_SIZE_BYTES == 50 * 1024 * 1024
\* a mime type is a text kept whole
_DEFAULT_MIME_TYPE == PyStr(<<"application/octet-stream">>)
_FALLBACK_FILE_NAME == PyStr(<<"u", "p", "l", "o", "a", "d", ".", "b", "i", "n">>)

(* An image argument (cover_image, image, new_image) is kept parsed:         *)
(*   none       the argument is None                                         *)
(*   empty      the empty string                                             *)
(*   blank      only white space                                             *)
(*   http       an absolute URL with scheme http or https; `file` is the     *)
(*              name its last path segment gives, None if it gives none      *)
(*   scheme     an absolute URL with another scheme (ftp)                    *)
(*   data       a data: URL whose payload decodes to `size` bytes; `mime`    *)
(*              is the type it names, None if it names none                  *)
(*   data_undecodable  a data: URL marked base64 whose payload is not base64 *)
(*   base64     a base64 text that decodes to `size` bytes                   *)
(*   undecodable  a text that is none of these and is not base64             *)
ImageText(form, size, mime, file) ==
    [form |-> form, size |-> size, mime |-> mime, file |-> file]
NoImageText == ImageText("none", 0, None, None)
EmptyImageText == ImageText("empty", 0, None, None)
BlankImageText == ImageText("blank", 0, None, None)
HttpUrl(file) == ImageText("http", 0, None, file)
\* an ftp:// url
OtherSchemeUrl == ImageText("scheme", 0, None, None)
DataUrl(mime, size) == ImageText("data", size, mime, None)
UndecodableDataUrl == ImageText("data_undecodable", 0, PyStr(<<"image/png">>), None)
Base64Text(size) == ImageText("base64", size, None, None)
UndecodableText == ImageText("undecodable", 0, None, None)

\* bool(image)
GivenImage(image) == image.form \notin {"none", "empty"}

\* bytes, by their length
Bytes(n) == <<"bytes", n>>

\* PreparedImage; `present` is false for None
PreparedImage(filename, content, mime_type) ==
    [present |-> TRUE, filename |-> filename, content |-> content, mime_type |-> mime_type]
NoPreparedImage ==
    [present |-> FALSE, filename |-> None, content |-> Bytes(0), mime_type |-> None]

\* line 922, with the scheme as urlparse gives it (in lower case)
UnsupportedScheme(scheme) == "URL scheme '" \o scheme \o "' is not supported"
EmptyDataUrl == "Image payload is empty after decoding the provided data URL"
EmptyDecoded == "Decoded image payload is empty"
UndecodableBase64 == "Failed to decode base64 image data"

\* _prepare_image_payload for everything but an http(s) URL, which it hands to
\* _fetch_image_from_url (lines 913-959)
_prepare_image_payload(image, fallback_name) ==
    CASE image.form = "scheme" -> Raise(UnsupportedScheme("ftp"))
      [] image.form = "data" ->
            IF image.size = 0 THEN Raise(EmptyDataUrl)
            ELSE Ok(PreparedImage(fallback_name, Bytes(image.size),
                                  Or(image.mime, _DEFAULT_MIME_TYPE)))
      [] image.form = "base64" ->
            IF image.size = 0 THEN Raise(EmptyDecoded)
            ELSE Ok(PreparedImage(fallback_name, Bytes(image.size), _DEFAULT_MIME_TYPE))
      [] image.form \in {"none", "empty", "blank"} -> Raise(EmptyDecoded)
      [] image.form \in {"undecodable", "data_undecodable"} -> Raise(UndecodableBase64)

\* a request handed to requests.request or requests.get
\*   kind "json"  _bookstack_request       kind "form"  _bookstack_request_form
\*   kind "fetch" requests.get of _fetch_image_from_url
NoFormData == [present |-> FALSE, body |-> EmptyMap]
FormData(d) == [present |-> TRUE, body |-> d]
JsonRequest(method, path, json) ==
    [kind |-> "json", method |-> method, path |-> path, json |-> json,
     data |-> NoFormData, files |-> NoPreparedImage]
FormRequest(method, path, data, files) ==
    [kind |-> "form", method |-> method, path |-> path, json |-> NoBody,
     data |-> data, files |-> files]
FetchRequest ==
    [kind |-> "fetch", method |-> "GET", path |-> <<"image url">>, json |-> NoBody,
     data |-> NoFormData, files |-> NoPreparedImage]

GalleryBase == "/api/image-gallery"

----------------------------------------------------------------------------
(* bookstack_manage_content and bookstack_manage_images, from the call to   *)
(* the return: validation, image resolution, the request.                   *)

MaxToolChanges == 1

PngMime == PyStr(<<"image/png">>)
PngFile == PyStr(<<"c", ".", "p", "n", "g">>)

\* what a non-blank image argument may be
ImageTextSamples ==
    {HttpUrl(None), HttpUrl(PngFile), OtherSchemeUrl, DataUrl(PngMime, 2), DataUrl(None, 0),
     UndecodableDataUrl, Base64Text(3), UndecodableText}

\* the parsed forms a text given as image argument may have
ImageFormsOf(text) ==
    IF IsNone(text) THEN {NoImageText}
    ELSE IF text[2] = <<>> THEN {EmptyImageText}
    ELSE IF Strip(text[2]) = <<>> THEN {BlankImageText}
    ELSE ImageTextSamples

\* the arguments of bookstack_manage_images that the operations other than list read
ImagesArgs(operation, id, name, image, uploaded_to, new_name, new_image) ==
    [operation |-> operation, id |-> id, name |-> name, image |-> image,
     image_type |-> PyStr(<<"g", "a", "l", "l", "e", "r", "y">>),
     uploaded_to |-> uploaded_to, new_name |-> new_name, new_image |-> new_image]
NoImagesArgs == ImagesArgs("", None, None, NoImageText, None, None, NoImageText)

ImageArgSamples == {NoImageText, EmptyImageText, BlankImageText} \cup ImageTextSamples

ImagesInvocations ==
    {ImagesArgs("create", None, name, image, uploaded_to, None, NoImageText) :
        name \in {None, PyStr(<<>>), PyStr(<<"B">>)}, image \in ImageArgSamples,
        uploaded_to \in {None, PyInt(0), PyInt(1)}} \cup
    {ImagesArgs(operation, id, None, NoImageText, uploaded_to, None, NoImageText) :
        operation \in {"read", "delete"}, id \in {None, PyInt(7)},
        uploaded_to \in {None, PyInt(0), PyInt(1)}} \cup
    {ImagesArgs("update", id, None, NoImageText, uploaded_to, new_name, new_image) :
        id \in {None, PyInt(7)}, uploaded_to \in {None, PyInt(0)},
        new_name \in {None, PyStr(<<>>), PyStr(<<"B">>)}, new_image \in ImageArgSamples}

\* the calls of bookstack_manage_content: the baseline calls of the compiler, and
\* for a book also one with a cover image and one with a gallery image, each with
\* at most MaxToolChanges arguments or `updates` keys changed
ToolBaselines(operation, entity_type) ==
    {BaselineArgs(operation, entity_type, src) :
        src \in IF operation = "create" THEN {"args", "updates"} ELSE {"args"}} \cup
    IF entity_type = "book" /\ operation \in {"create", "update"}
    THEN {[BaselineArgs(operation, entity_type, "args") EXCEPT !.cover_image = PyStr(<<"B">>)],
          [BaselineArgs(operation, entity_type, "args") EXCEPT !.image_id = PyInt(2)]}
    ELSE {}

ToolContentInvocations(operation, entity_type) ==
    UNION {{NormaliseUpdates(a) : a \in ChangedArgs(b, MaxToolChanges)} :
           b \in ToolBaselines(operation, entity_type)}

NoToolReq ==
    [tool |-> "", operation |-> "", entity_type |-> "", a |-> NoArgs,
     cover |-> NoImageText, im |-> NoImagesArgs]

\* a raised error and where the call raised it:
\*   compile    _build_content_operation           validate   an _ensure or an id check
\*   image      _prepare_image_payload, decoding    config     _require_env
\*   fetch      _fetch_image_from_url               gallery    the gallery metadata request
\*   transport  the request of the call itself                 and its answer
NoToolError == [msg |-> "", at |-> ""]
ToolError(msg, at) == [msg |-> msg, at |-> at]

NoUrl == [file |-> None, fallback |-> None]

ToolInit ==
    /\ env = ConfiguredEnv
    /\ tpc = "idle"
    /\ treq = NoToolReq
    /\ tprep = NoRes
    /\ timg = NoPreparedImage
    /\ turl = NoUrl
    /\ terr = NoToolError
    /\ net = <<>>

\* the environment is changed between two calls
Configure ==
    /\ tpc = "idle"
    /\ \E e \in EnvSamples : e # env /\ env' = e
    /\ UNCHANGED <<tpc, treq, tprep, timg, turl, terr, net>>
    /\ UNCHANGED <<compileVars, batchVars, cacheVars, fetchVars, extraVars>>

\* bookstack_manage_content, lines 1484-1501: the operation is compiled first
ManageContentStart ==
    /\ tpc = "idle"
    /\ \E operation \in Operations, entity_type \in EntityTypes :
         \E a \in ToolContentInvocations(operation, entity_type) :
            \E cover \in ImageFormsOf(a.cover_image) :
               LET p == _build_content_operation(operation, entity_type, a)
               IN  /\ treq' = [tool |-> "content", operation |-> operation,
                               entity_type |-> entity_type, a |-> a, cover |-> cover,
                               im |-> NoImagesArgs]
                   /\ tprep' = p
                   /\ tpc' = IF Failed(p) THEN "failed" ELSE "ready"
                   /\ terr' = IF Failed(p) THEN ToolError(p.err, "compile") ELSE NoToolError
    /\ UNCHANGED <<env, timg, turl, net>>
    /\ UNCHANGED <<compileVars, batchVars, cacheVars, fetchVars, extraVars>>

\* bookstack_manage_images, lines 1883-1895 and 1917: what the _ensure calls and
\* the check of uploaded_to raise; "" when they pass
ImagesValidation(im) ==
    IF im.operation \in {"read", "delete", "update"} /\ IsNone(im.id)
    THEN "'id' is required for read/update/delete operations"
    ELSE IF ~IsNone(im.uploaded_to) /\ Failed(_validate_positive_int(im.uploaded_to, "'uploaded_to'"))
    THEN _validate_positive_int(im.uploaded_to, "'uploaded_to'").err
    ELSE IF im.operation = "create" /\ ~Truthy(im.name)
    THEN "'name' is required when creating an image"
    ELSE IF im.operation = "create" /\ ~GivenImage(im.image)
    THEN "Provide an image payload for create operations"
    ELSE IF im.operation = "create" /\ IsNone(im.uploaded_to)
    THEN "'uploaded_to' is required when creating an image"
    ELSE IF im.operation = "update" /\ ~(Truthy(im.new_name) \/ GivenImage(im.new_image))
    THEN "Provide new_name, new_image, or both for update operations"
    ELSE ""

\* the image of a create fetched before the arguments are validated
MutImagesStartFetchesFirst ==
    /\ tpc = "idle"
    /\ \E im \in ImagesInvocations :
         /\ treq' = [NoToolReq EXCEPT !.tool = "images", !.operation = im.operation, !.im = im]
         /\ net' = IF im.image.form = "http" THEN Append(net, FetchRequest) ELSE net
         /\ tpc' = IF ImagesValidation(im) # "" THEN "failed" ELSE "ready"
         /\ terr' = IF ImagesValidation(im) # "" THEN ToolError(ImagesValidation(im), "validate")
                    ELSE NoToolError
    /\ UNCHANGED <<env, tprep, timg, turl>>
    /\ UNCHANGED <<compileVars, batchVars, cacheVars, fetchVars, extraVars>>

\* bookstack_manage_images: the arguments are validated first
ManageImagesStart ==
    /\ tpc = "idle"
    /\ \E im \in ImagesInvocations :
         /\ treq' = [NoToolReq EXCEPT !.tool = "images", !.operation = im.operation, !.im = im]
         /\ tpc' = IF ImagesValidation(im) # "" THEN "failed" ELSE "ready"
         /\ terr' = IF ImagesValidation(im) # "" THEN ToolError(ImagesValidation(im), "validate")
                    ELSE NoToolError
    /\ UNCHANGED <<env, tprep, timg, turl, net>>
    /\ UNCHANGED <<compileVars, batchVars, cacheVars, fetchVars, extraVars>>

\* line 1504: the book create or update looks for an image
WantsCover ==
    /\ treq.tool = "content"
    /\ treq.entity_type = "book"
    /\ treq.operation \in {"create", "update"}

\* where the image of the call comes from: an image argument, the gallery, or none
ImageSource ==
    CASE treq.tool = "content" ->
            IF WantsCover /\ ~IsNone(treq.a.cover_image) THEN "argument"
            ELSE IF WantsCover /\ ~IsNone(treq.a.image_id) THEN "gallery"
            ELSE "none"
      [] treq.tool = "images" ->
            IF treq.operation = "create" THEN "argument"
            ELSE IF treq.operation = "update" /\ GivenImage(treq.im.new_image) THEN "argument"
            ELSE "none"

\* the image argument that is resolved
ImageArgument ==
    CASE treq.tool = "content" -> treq.cover
      [] treq.operation = "create" -> treq.im.image
      [] OTHER -> treq.im.new_image

\* the fallback name handed to the resolver (lines 1505-1507, 1897, 1925)
FallbackName ==
    CASE treq.tool = "content" ->
            LET fallback_name == Or(treq.a.name, Get(tprep.json.body, "name"))
            IN  IF Truthy(fallback_name) THEN fallback_name
                ELSE IF ~IsNone(treq.a.entity_id)
                THEN PyStr(<<"b", "o", "o", "k", "-">> \o DecStr(treq.a.entity_id[2])
                           \o <<"-", "c", "o", "v", "e", "r">>)
                ELSE PyStr(<<"b", "o", "o", "k", "-", "c", "o", "v", "e", "r">>)
      [] treq.operation = "create" -> Or(treq.im.name, _FALLBACK_FILE_NAME)
      [] OTHER ->
            Or(treq.im.new_name,
               PyStr(<<"i", "m", "a", "g", "e", "-">> \o DecStr(treq.im.id[2])))

ToolFail(msg, at) ==
    /\ tpc' = "failed"
    /\ terr' = ToolError(msg, at)

\* no image to resolve
ResolveNone ==
    /\ tpc = "ready"
    /\ ImageSource = "none"
    /\ tpc' = "resolved"
    /\ UNCHANGED <<env, treq, tprep, timg, turl, terr, net>>
    /\ UNCHANGED <<compileVars, batchVars, cacheVars, fetchVars, extraVars>>

\* _prepare_image_payload of an image argument that is no http(s) URL
ResolveLocal ==
    /\ tpc = "ready"
    /\ ImageSource = "argument"
    /\ ImageArgument.form # "http"
    /\ LET r == _prepare_image_payload(ImageArgument, FallbackName)
       IN  IF Failed(r) THEN ToolFail(r.err, "image") /\ UNCHANGED timg
           ELSE tpc' = "resolved" /\ timg' = r.val /\ UNCHANGED terr
    /\ UNCHANGED <<env, treq, tprep, turl, net>>
    /\ UNCHANGED <<compileVars, batchVars, cacheVars, fetchVars, extraVars>>

\* _prepare_image_payload of an http(s) URL: requests.get (line 504)
ResolveFetch ==
    /\ tpc = "ready"
    /\ ImageSource = "argument"
    /\ ImageArgument.form = "http"
    /\ net' = Append(net, FetchRequest)
    /\ turl' = [file |-> ImageArgument.file, fallback |-> FallbackName]
    /\ tpc' = "fetching"
    /\ UNCHANGED <<env, treq, tprep, timg, terr>>
    /\ UNCHANGED <<compileVars, batchVars, cacheVars, fetchVars, extraVars>>

\* _prepare_cover_image_from_gallery, lines 970-971: the id, then the metadata request
GalleryStart ==
    /\ tpc = "ready"
    /\ ImageSource = "gallery"
    /\ LET validated_id == _validate_positive_int(treq.a.image_id, "'image_id'")
       IN  IF Failed(validated_id)
           THEN ToolFail(validated_id.err, "validate") /\ UNCHANGED net
           ELSE IF ConfigError(env) # ""
           THEN ToolFail(ConfigError(env), "config") /\ UNCHANGED net
           ELSE /\ net' = Append(net, JsonRequest("GET", IdPath(GalleryBase, validated_id.val),
                                                  NoBody))
                /\ tpc' = "gallery"
                /\ UNCHANGED terr
    /\ UNCHANGED <<env, treq, tprep, timg, turl>>
    /\ UNCHANGED <<compileVars, batchVars, cacheVars, fetchVars, extraVars>>

\* the metadata request fails
GalleryFail ==
    /\ tpc = "gallery"
    /\ ToolFail(TransportFailure, "gallery")
    /\ UNCHANGED <<env, treq, tprep, timg, turl, net>>
    /\ UNCHANGED <<compileVars, batchVars, cacheVars, fetchVars, extraVars>>

\* line 998: image_name or fallback_name or f"book-cover-{validated_id}"
effective_name(image_name, fallback_name, validated_id) ==
    Or(Or(image_name, fallback_name),
       PyStr(<<"b", "o", "o", "k", "-", "c", "o", "v", "e", "r", "-">> \o DecStr(validated_id[2])))

\* what the remote answers for the metadata: no dict, a dict without url and path, a
\* dict whose url is no http(s) URL, or a dict with a name and a url
GalleryAnswers ==
    {[dict |-> FALSE, name |-> None, url |-> NoImageText],
     [dict |-> TRUE, name |-> None, url |-> NoImageText],
     [dict |-> TRUE, name |-> None, url |-> OtherSchemeUrl],
     [dict |-> TRUE, name |-> None, url |-> HttpUrl(None)],
     [dict |-> TRUE, name |-> PyStr(<<"G">>), url |-> HttpUrl(None)],
     [dict |-> TRUE, name |-> PyStr(<<"G">>), url |-> HttpUrl(PngFile)]}

\* lines 972-1000: the metadata is read and the image fetched from its url
GalleryMetadata ==
    /\ tpc = "gallery"
    /\ \E metadata \in GalleryAnswers :
         IF ~metadata.dict
         THEN /\ ToolFail("Unexpected response when fetching gallery image metadata", "gallery")
              /\ UNCHANGED <<turl, net>>
         ELSE IF metadata.url.form = "none"
         THEN /\ ToolFail("Gallery image metadata did not include a usable URL", "gallery")
              /\ UNCHANGED <<turl, net>>
         ELSE IF metadata.url.form # "http"
         THEN /\ ToolFail("Invalid URL format", "gallery")
              /\ UNCHANGED <<turl, net>>
         ELSE /\ net' = Append(net, FetchRequest)
              /\ turl' = [file |-> metadata.url.file,
                          fallback |-> effective_name(
                              _normalise_str(metadata.name), FallbackName,
                              _validate_positive_int(treq.a.image_id, "'image_id'").val)]
              /\ tpc' = "fetching"
              /\ UNCHANGED terr
    /\ UNCHANGED <<env, treq, tprep, timg>>
    /\ UNCHANGED <<compileVars, batchVars, cacheVars, fetchVars, extraVars>>

\* what _fetch_image_from_url returns: bytes within the limit, a mime type, and the
\* name taken from the url or else the fallback name
FetchedSizes == {1, _MAX_IMAGE_SIZE_BYTES}
FetchedMimes == {PngMime, _DEFAULT_MIME_TYPE}
\* the errors of _fetch_image_from_url after its url check. Lines 562-586: a
\* Timeout, a ConnectionError, an HTTPError and any other RequestException, raised
\* by requests.get, raise_for_status or iter_content. The HTTPError of an error
\* status carries a response that is falsy, so its status is given as "unknown".
RequestTimeout == "Request timeout after 30 seconds"
ConnectFailed == "Failed to connect to image URL"
HttpErrorUnknown == "HTTP error unknown when fetching image"
FetchFailedOther == "Failed to fetch image from URL"
RequestErrors == {RequestTimeout, ConnectFailed, HttpErrorUnknown, FetchFailedOther}
\* lines 518-541 and 589-594; the message of TooLarge goes on with the two sizes
TooLarge == "Image too large"
DownloadExceeded == "Image download exceeded 52428800 byte limit"
EmptyDownload == "Downloaded image is empty"
UnexpectedFetchError == "Unexpected error while fetching image from URL"
FetchFailures ==
    RequestErrors \cup {TooLarge, DownloadExceeded, EmptyDownload, UnexpectedFetchError}

FetchOk ==
    /\ tpc = "fetching"
    /\ \E n \in FetchedSizes, mime \in FetchedMimes :
         timg' = PreparedImage(Or(turl.file, turl.fallback), Bytes(n), mime)
    /\ tpc' = "resolved"
    /\ UNCHANGED <<env, treq, tprep, turl, terr, net>>
    /\ UNCHANGED <<compileVars, batchVars, cacheVars, fetchVars, extraVars>>

FetchFail ==
    /\ tpc = "fetching"
    /\ \E msg \in FetchFailures : ToolFail(msg, "fetch")
    /\ UNCHANGED <<env, treq, tprep, timg, turl, net>>
    /\ UNCHANGED <<compileVars, batchVars, cacheVars, fetchVars, extraVars>>

\* lines 1515-1529: the multipart request of a book with a resolved image
MutContentFormKeepsPut(operation, op_prepared, image) ==
    FormRequest(op_prepared.method, op_prepared.path,
                FormData(_prepare_form_data(op_prepared.json.body)), image)

ContentFormRequest(operation, op_prepared, image) ==
    LET form_data == _prepare_form_data(op_prepared.json.body)
        data == IF operation = "update" THEN Put(form_data, "_method", PyStr(<<"P", "U", "T">>))
                ELSE form_data
    IN  FormRequest(IF operation = "update" THEN "POST" ELSE op_prepared.method, op_prepared.path,
                    IF data # EmptyMap THEN FormData(data) ELSE NoFormData, image)

\* the requests of bookstack_manage_images (lines 1898-1937)
ImagesRequest(im, image) ==
    CASE im.operation = "create" ->
            FormRequest("POST", <<GalleryBase>>,
                        FormData(LET p == ("name" :> im.name) @@ ("uploaded_to" :> im.uploaded_to)
                                 IN  IF Truthy(im.image_type) THEN Put(p, "type", im.image_type)
                                     ELSE p),
                        image)
      [] im.operation = "read" -> JsonRequest("GET", IdPath(GalleryBase, im.id), NoBody)
      [] im.operation = "update" ->
            FormRequest("PUT", IdPath(GalleryBase, im.id),
                        IF Truthy(im.new_name) THEN FormData("name" :> im.new_name)
                        ELSE NoFormData,
                        image)
      [] im.operation = "delete" -> JsonRequest("DELETE", IdPath(GalleryBase, im.id), NoBody)

\* the request of the call, once its image (if any) is resolved
ToolRequest ==
    IF treq.tool = "images" THEN ImagesRequest(treq.im, timg)
    ELSE IF timg.present THEN ContentFormRequest(treq.operation, tprep, timg)
    ELSE JsonRequest(tprep.method, tprep.path, tprep.json)

\* _bookstack_request / _bookstack_request_form: the settings are read, then the
\* request is made
Send ==
    /\ tpc = "resolved"
    /\ IF ConfigError(env) # ""
       THEN ToolFail(ConfigError(env), "config") /\ UNCHANGED net
       ELSE /\ net' = Append(net, ToolRequest)
            /\ tpc' = "sent"
            /\ UNCHANGED terr
    /\ UNCHANGED <<env, treq, tprep, timg, turl>>
    /\ UNCHANGED <<compileVars, batchVars, cacheVars, fetchVars, extraVars>>

\* the request succeeds; an image create, update or delete then clears the list cache
TransportOk ==
    /\ tpc = "sent"
    /\ tpc' = "done"
    /\ LIST_CACHE' = IF treq.tool = "images" /\ treq.operation \in ImageMutations
                     THEN _invalidate_list_cache(LIST_CACHE) ELSE LIST_CACHE
    /\ UNCHANGED <<env, treq, tprep, timg, turl, terr, net>>
    /\ UNCHANGED <<now, remote, inv, stored, lastDone>>
    /\ UNCHANGED <<compileVars, batchVars, fetchVars, extraVars>>

\* the request fails
TransportFail ==
    /\ tpc = "sent"
    /\ ToolFail(TransportFailure, "transport")
    /\ UNCHANGED <<env, treq, tprep, timg, turl, net>>
    /\ UNCHANGED <<compileVars, batchVars, cacheVars, fetchVars, extraVars>>

\* the call returns or raises
ToolReturn ==
    /\ tpc \in {"done", "failed"}
    /\ tpc' = "idle"
    /\ treq' = NoToolReq
    /\ tprep' = NoRes
    /\ timg' = NoPreparedImage
    /\ turl' = NoUrl
    /\ terr' = NoToolError
    /\ net' = <<>>
    /\ UNCHANGED env
    /\ UNCHANGED <<compileVars, batchVars, cacheVars, fetchVars, extraVars>>

----------------------------------------------------------------------------
(* _fetch_image_from_url, from the call to the return: the response, its    *)
(* Content-Length, the body streamed chunk by chunk.                        *)

MaxChunks == 3

\* the chunks response.iter_content may give, by their length
ChunkSizes == {0, 1, 8192, _MAX_IMAGE_SIZE_BYTES - 8192, _MAX_IMAGE_SIZE_BYTES}

\* the Content-Length header: absent, empty, a number, or no number
ContentLengths ==
    {None, PyStr(<<>>), PyStr(<<"0">>), PyStr(<<"x">>), PyStr(DecStr(8192)),
     PyStr(DecStr(_MAX_IMAGE_SIZE_BYTES)), PyStr(DecStr(_MAX_IMAGE_SIZE_BYTES + 1))}

\* line 518: content_length and int(content_length) > _MAX_IMAGE_SIZE_BYTES
DeclaredTooLarge(content_length) ==
    Truthy(content_length) /\ IntOf(content_length) > _MAX_IMAGE_SIZE_BYTES

\* line 529: len(content) > _MAX_IMAGE_SIZE_BYTES
MutDownloadNeverTooLarge(length) == FALSE

DownloadTooLarge(length) == length > _MAX_IMAGE_SIZE_BYTES

NoResponse == [content_length |-> None, mime |-> None]

FetchInit ==
    /\ fpc = "idle"
    /\ furl = NoUrl
    /\ fresp = NoResponse
    /\ fcontent = 0
    /\ fread = 0
    /\ fresult = NoPreparedImage
    /\ ferr = ""

\* the call: a url that is no http(s) URL raises before any request (lines 496-501)
FetchCall ==
    /\ fpc = "idle"
    /\ \E valid \in BOOLEAN, file \in {None, PngFile} :
         /\ furl' = [file |-> file, fallback |-> _FALLBACK_FILE_NAME]
         /\ fpc' = IF valid THEN "requested" ELSE "failed"
         /\ ferr' = IF valid THEN "" ELSE "Invalid URL format"
    /\ UNCHANGED <<fresp, fcontent, fread, fresult>>
    /\ UNCHANGED <<compileVars, batchVars, cacheVars, toolVars, extraVars>>

\* requests.get or raise_for_status raises (lines 504-514)
FetchRequestFails ==
    /\ fpc = "requested"
    /\ fpc' = "failed"
    /\ \E msg \in RequestErrors : ferr' = msg
    /\ UNCHANGED <<furl, fresp, fcontent, fread, fresult>>
    /\ UNCHANGED <<compileVars, batchVars, cacheVars, toolVars, extraVars>>

\* the response arrives and its Content-Length is looked at (lines 517-523); a
\* header that is no number makes int() raise, which line 575 turns into an error
FetchResponse ==
    /\ fpc = "requested"
    /\ \E content_length \in ContentLengths, mime \in FetchedMimes :
         /\ fresp' = [content_length |-> content_length, mime |-> mime]
         /\ IF Truthy(content_length) /\ ~IntOk(content_length)
            THEN fpc' = "failed" /\ ferr' = UnexpectedFetchError
            ELSE IF DeclaredTooLarge(content_length)
            THEN fpc' = "failed" /\ ferr' = TooLarge
            ELSE fpc' = "streaming" /\ ferr' = ""
    /\ UNCHANGED <<furl, fcontent, fread, fresult>>
    /\ UNCHANGED <<compileVars, batchVars, cacheVars, toolVars, extraVars>>

\* one pass of the loop of lines 527-534
FetchChunk ==
    /\ fpc = "streaming"
    /\ fread < MaxChunks
    /\ \E chunk \in ChunkSizes :
         /\ fcontent' = fcontent + chunk
         /\ fread' = fread + 1
         /\ IF DownloadTooLarge(fcontent + chunk)
            THEN fpc' = "failed" /\ ferr' = DownloadExceeded
            ELSE UNCHANGED <<fpc, ferr>>
    /\ UNCHANGED <<furl, fresp, fresult>>
    /\ UNCHANGED <<compileVars, batchVars, cacheVars, toolVars, extraVars>>

\* iter_content raises while the body is streamed (lines 527, 562-586): what was
\* read is dropped
FetchStreamFails ==
    /\ fpc = "streaming"
    /\ fpc' = "failed"
    /\ \E msg \in RequestErrors : ferr' = msg
    /\ UNCHANGED <<furl, fresp, fcontent, fread, fresult>>
    /\ UNCHANGED <<compileVars, batchVars, cacheVars, toolVars, extraVars>>

\* the body has ended (lines 536-560)
FetchEnd ==
    /\ fpc = "streaming"
    /\ IF fcontent = 0
       THEN fpc' = "failed" /\ ferr' = EmptyDownload /\ UNCHANGED fresult
       ELSE /\ fpc' = "done"
            /\ fresult' = PreparedImage(Or(furl.file, furl.fallback), Bytes(fcontent),
                                        fresp.mime)
            /\ UNCHANGED ferr
    /\ UNCHANGED <<furl, fresp, fcontent, fread>>
    /\ UNCHANGED <<compileVars, batchVars, cacheVars, toolVars, extraVars>>

\* the call returns or raises
FetchReturn ==
    /\ fpc \in {"done", "failed"}
    /\ fpc' = "idle"
    /\ furl' = NoUrl
    /\ fresp' = NoResponse
    /\ fcontent' = 0
    /\ fread' = 0
    /\ fresult' = NoPreparedImage
    /\ ferr' = ""
    /\ UNCHANGED <<compileVars, batchVars, cacheVars, toolVars, extraVars>>

----------------------------------------------------------------------------
(* The image payload resolver on texts: _prepare_image_payload, _is_url,    *)
(* _prepare_cover_image_from_gallery, and the file name and mime type that   *)
(* _fetch_image_from_url gives.                                              *)

MaxPathLen == 4

\* str.lower(), character by character
UpperCase == <<"A", "B", "C", "D", "E", "F", "G", "H", "I", "J", "K", "L", "M", "N", "O", "P", "Q", "R", "S", "T", "U", "V", "W", "X", "Y", "Z">>
LowerCase == <<"a", "b", "c", "d", "e", "f", "g", "h", "i", "j", "k", "l", "m", "n", "o", "p", "q", "r", "s", "t", "u", "v", "w", "x", "y", "z">>
DigitChars == <<"0", "1", "2", "3", "4", "5", "6", "7", "8", "9">>
LowerChar(c) ==
    IF \E i \in 1..Len(UpperCase) : UpperCase[i] = c
    THEN LowerCase[CHOOSE i \in 1..Len(UpperCase) : UpperCase[i] = c]
    ELSE c
Lower(s) == [i \in 1..Len(s) |-> LowerChar(s[i])]

\* s.rfind(c), counted from 1 (0: not found)
RFind(s, c) ==
    IF \E i \in 1..Len(s) : s[i] = c
    THEN CHOOSE i \in 1..Len(s) : s[i] = c /\ \A j \in (i + 1)..Len(s) : s[j] # c
    ELSE 0

\* s.strip(c)
StripChar(s, c) ==
    IF \A i \in 1..Len(s) : s[i] = c THEN <<>>
    ELSE LET first == CHOOSE i \in 1..Len(s) : s[i] # c /\ \A j \in 1..(i - 1) : s[j] = c
             last == CHOOSE i \in 1..Len(s) : s[i] # c /\ \A j \in (i + 1)..Len(s) : s[j] = c
         IN  SubSeq(s, first, last)

(* A text given as image is kept as urlparse splits it: scheme (in the case   *)
(* it is written in; urlparse gives it in lower case), netloc, path and query *)
(* are sequences of characters; `slashes` tells whether "//" is     *)
(* written before the netloc (it is whenever there is a netloc); `body` is    *)
(* what the text is when it is read as a data: URL or as base64 (an           *)
(* ImageText).                                                                *)
UrlText(scheme, netloc, path, query, body) ==
    [scheme |-> scheme, netloc |-> netloc, path |-> path, query |-> query, body |-> body,
     slashes |-> netloc # <<>>]
\* the same text with "//" and an empty netloc, as in file:///c.png
WithSlashes(text) == [text EXCEPT !.slashes = TRUE]

_ALLOWED_URL_SCHEMES == {<<"h", "t", "t", "p">>, <<"h", "t", "t", "p", "s">>}

\* line 917: parsed.scheme and parsed.netloc
LooksLikeUrl(text) == text.scheme # <<>> /\ text.netloc # <<>>

\* line 919: parsed.scheme.lower() in _ALLOWED_URL_SCHEMES
SchemeAllowed(text) == Lower(text.scheme) \in _ALLOWED_URL_SCHEMES

\* _is_url (lines 468-474)
_is_url(text) == Lower(text.scheme) \in _ALLOWED_URL_SCHEMES /\ text.netloc # <<>>

_ALLOWED_MIME_TYPES ==
    {PyStr(<<"image/jpeg">>), PyStr(<<"image/jpg">>), PyStr(<<"image/png">>),
     PyStr(<<"image/gif">>), PyStr(<<"image/webp">>), PyStr(<<"image/bmp">>),
     PyStr(<<"image/tiff">>), PyStr(<<"image/svg+xml">>)}

\* posixpath.splitext: the extension starts at the last dot of the last
\* component, unless only dots stand before it there
splitext(p) ==
    LET sep == RFind(p, "/")
        dot == RFind(p, ".")
    IN  IF dot > sep /\ \E i \in (sep + 1)..(dot - 1) : p[i] # "."
        THEN [base |-> SubSeq(p, 1, dot - 1), ext |-> SubSeq(p, dot, Len(p))]
        ELSE [base |-> p, ext |-> <<>>]

\* the tables of the mimetypes module, for the extensions of the sample urls
suffix_map(ext) ==
    CASE ext = <<".", "s", "v", "g", "z">> -> <<".", "s", "v", "g", ".", "g", "z">>
      [] ext = <<".", "t", "g", "z">> -> <<".", "t", "a", "r", ".", "g", "z">>
      [] OTHER -> <<>>
encodings_map == {<<".", "g", "z">>}
types_map(ext) ==
    CASE ext = <<".", "p", "n", "g">> -> PyStr(<<"image/png">>)
      [] ext = <<".", "g", "i", "f">> -> PyStr(<<"image/gif">>)
      [] ext = <<".", "j", "p", "g">> -> PyStr(<<"image/jpeg">>)
      [] ext = <<".", "s", "v", "g">> -> PyStr(<<"image/svg+xml">>)
      [] ext = <<".", "t", "x", "t">> -> PyStr(<<"text/plain">>)
      [] ext = <<".", "c">> -> PyStr(<<"text/x-csrc">>)
      [] ext = <<".", "c", "c">> -> PyStr(<<"text/x-c++src">>)
      [] ext = <<".", "%">> -> PyStr(<<"application/x-trash">>)
      [] ext = <<".", "t", "a", "r">> -> PyStr(<<"application/x-tar">>)
      [] ext = <<".", "g", "z">> -> PyStr(<<"application/gzip">>)
      [] OTHER -> None

\* what mimetypes.guess_type splits (urllib.parse._splittype): the text after
\* "scheme:" as it is written, the whole text when it has no scheme
UrlAfterScheme(text) ==
    (IF text.slashes THEN <<"/", "/">> \o text.netloc ELSE <<>>) \o text.path \o
    (IF text.query = <<>> THEN <<>> ELSE <<"?">> \o text.query)

\* the characters of a text as one string
RECURSIVE JoinChars(_)
JoinChars(chars) == IF chars = <<>> THEN "" ELSE Head(chars) \o JoinChars(Tail(chars))

\* str.find: the first position of c in s before `stop`, 0 when there is none
Find(s, c, stop) ==
    IF \E i \in 1..(stop - 1) : s[i] = c
    THEN CHOOSE i \in 1..(stop - 1) : s[i] = c /\ \A j \in 1..(i - 1) : s[j] # c
    ELSE 0

\* guess_type of a url whose scheme is data: the media type written before the
\* first ";" or ",", text/plain when that is no type/subtype, None without a ","
GuessDataType(url) ==
    LET comma == Find(url, ",", Len(url) + 1)
        semi == Find(url, ";", comma)
        type == IF semi > 0 THEN SubSeq(url, 1, semi - 1) ELSE SubSeq(url, 1, comma - 1)
    IN  IF comma = 0 THEN None
        ELSE IF (\E i \in 1..Len(type) : type[i] = "=") \/ ~(\E i \in 1..Len(type) : type[i] = "/")
        THEN PyStr(<<"text/plain">>)
        ELSE PyStr(<<JoinChars(type)>>)

\* mimetypes.guess_type(url)[0]
GuessType(text) ==
    LET first == splitext(UrlAfterScheme(text))
        mapped == IF suffix_map(Lower(first.ext)) # <<>>
                  THEN splitext(first.base \o suffix_map(Lower(first.ext)))
                  ELSE first
        inner == IF mapped.ext \in encodings_map THEN splitext(mapped.base) ELSE mapped
    IN  IF Lower(text.scheme) = <<"d", "a", "t", "a">> THEN GuessDataType(UrlAfterScheme(text))
        ELSE types_map(Lower(inner.ext))

\* the Content-Type header is a text kept in pieces: a mime type is one piece, as
\* are ";" and what follows; lower() of a piece
LowerPiece(p) ==
    CASE p = "IMAGE/PNG" -> "image/png"
      [] p = "Text/Html" -> "text/html"
      [] OTHER -> p
\* header.split(';')[0]
BeforeSemicolon(pieces) ==
    IF \E i \in 1..Len(pieces) : pieces[i] = ";"
    THEN SubSeq(pieces, 1, (CHOOSE i \in 1..Len(pieces) :
                              pieces[i] = ";" /\ \A j \in 1..(i - 1) : pieces[j] # ";") - 1)
    ELSE pieces

\* lines 544-551: the mime type of a fetched image
MutMimeGuessFirst(content_type, text) ==
    IF ~IsNone(GuessType(text)) /\ GuessType(text) \in _ALLOWED_MIME_TYPES THEN GuessType(text)
    ELSE _DEFAULT_MIME_TYPE

FetchedMimeType(content_type, text) ==
    LET header == IF IsNone(content_type) THEN <<>> ELSE content_type[2]
        first == BeforeSemicolon(header)
        mime_type == PyStr([i \in 1..Len(first) |-> LowerPiece(first[i])])
        guessed_type == GuessType(text)
    IN  IF Truthy(mime_type) /\ mime_type \in _ALLOWED_MIME_TYPES THEN mime_type
        ELSE IF ~IsNone(guessed_type) /\ guessed_type \in _ALLOWED_MIME_TYPES
        THEN guessed_type
        ELSE _DEFAULT_MIME_TYPE

\* re.sub(r'[^\w\-_\.]', '_', filename)
IsWordChar(c) ==
    \/ \E i \in 1..Len(UpperCase) : c = UpperCase[i] \/ c = LowerCase[i]
    \/ \E i \in 1..Len(DigitChars) : c = DigitChars[i]
    \/ c = "_"
SanitiseFilename(filename) ==
    [i \in 1..Len(filename) |->
        IF IsWordChar(filename[i]) \/ filename[i] \in {"-", "_", "."} THEN filename[i] ELSE "_"]

\* path.split("/")[-1]
LastSegment(path) == SubSeq(path, RFind(path, "/") + 1, Len(path))

\* _extract_filename_from_url (lines 477-490)
_extract_filename_from_url(text, fallback) ==
    LET path == StripChar(text.path, "/")
        filename == SanitiseFilename(LastSegment(path))
    IN  IF path # <<>> /\ (\E i \in 1..Len(path) : path[i] = ".")
           /\ filename # <<>> /\ Len(filename) <= 255
        THEN PyStr(filename)
        ELSE fallback

\* the sample texts: urls of one host, with every path of up to MaxPathLen
\* characters and some longer ones
Host == <<"h">>
HttpScheme == <<"h", "t", "t", "p">>
HttpsUpperScheme == <<"H", "T", "T", "P", "S">>
FtpScheme == <<"f", "t", "p">>
FileScheme == <<"f", "i", "l", "e">>
DataScheme == <<"d", "a", "t", "a">>
PathAlphabet == {"c", ".", "/", "%"}
UrlPaths ==
    {p \in UNION {[1..k -> PathAlphabet] : k \in 0..MaxPathLen} : p = <<>> \/ p[1] = "/"}
NamedPaths ==
    {<<"/", "c", ".", "p", "n", "g">>, <<"/", "c", ".", "P", "N", "G">>, <<"/", "c", ".", "p", "n", "g", ".", "g", "z">>, <<"/", "c", ".", "s", "v", "g", "z">>, <<"/", "c", ".", "t", "x", "t">>, <<"/", "v", "1", ".", "2", "/", "i", "m", "a", "g", "e">>, <<"/", "C", "-", "c", "_", "1", " ", "+", ".", "g", "i", "f">>}
Queries == {<<>>, <<"q", ".", "p", "n", "g">>}
HtmlMime == PyStr(<<"text/html">>)

\* http(s) urls
HttpTexts ==
    {UrlText(HttpScheme, Host, p, q, UndecodableText) : p \in UrlPaths \cup NamedPaths, q \in Queries}
    \cup {UrlText(HttpsUpperScheme, Host, p, <<>>, UndecodableText) : p \in NamedPaths}
\* the characters of the mime types of the sample data: URLs
MimeChars(mime) ==
    CASE IsNone(mime) -> <<>>
      [] mime = PngMime -> <<"i", "m", "a", "g", "e", "/", "p", "n", "g">>
      [] mime = HtmlMime -> <<"t", "e", "x", "t", "/", "h", "t", "m", "l">>
\* base64 of `size` bytes "x"; a text too long to write out is kept as one piece
Base64Of(size) ==
    CASE size = 0 -> <<>>
      [] size = 1 -> <<"e", "A", "=", "=">>
      [] size = 2 -> <<"e", "H", "g", "=">>
      [] size = 3 -> <<"e", "H", "h", "4">>
      [] OTHER -> <<"eHh4...">>
\* the text a body stands for, without the "data:" of a data: URL: its path, as
\* urlparse gives it
BodyChars(body) ==
    CASE body.form = "data" ->
            MimeChars(body.mime) \o <<";", "b", "a", "s", "e", "6", "4", ",">> \o Base64Of(body.size)
      [] body.form = "data_undecodable" ->
            MimeChars(body.mime) \o <<";", "b", "a", "s", "e", "6", "4", ",", "@", "@", "@">>
      [] body.form = "base64" -> Base64Of(body.size)
      [] body.form = "undecodable" -> <<"@", "@", "@">>
      [] OTHER -> <<>>

\* ftp://h/c.png and data://h/c.png
OtherSchemeTexts ==
    {UrlText(s, Host, <<"/", "c", ".", "p", "n", "g">>, <<>>, UndecodableText) : s \in {FtpScheme, DataScheme}}
\* file:///c.png, http:/c.png: a scheme without netloc, which is no base64
NoNetlocTexts ==
    {WithSlashes(UrlText(FileScheme, <<>>, <<"/", "c", ".", "p", "n", "g">>, <<>>, UndecodableText)),
     UrlText(HttpScheme, <<>>, <<"/", "c", ".", "p", "n", "g">>, <<>>, UndecodableText)}
\* data: urls
DataTexts ==
    {UrlText(DataScheme, <<>>, BodyChars(body), <<>>, body) :
        body \in {DataUrl(PngMime, 2), DataUrl(HtmlMime, 2), DataUrl(None, 1), DataUrl(PngMime, 0),
                  DataUrl(PngMime, _MAX_IMAGE_SIZE_BYTES + 1), UndecodableDataUrl}}
\* texts without scheme: base64 or not; //hh is base64 with a netloc
PlainTexts ==
    {UrlText(<<>>, <<>>, BodyChars(body), <<>>, body) :
        body \in {Base64Text(3), Base64Text(_MAX_IMAGE_SIZE_BYTES + 1), UndecodableText,
                  EmptyImageText}}
    \cup {UrlText(<<>>, <<"h", "h">>, <<>>, <<>>, Base64Text(3))}
ImageTexts == HttpTexts \cup OtherSchemeTexts \cup NoNetlocTexts \cup DataTexts \cup PlainTexts

\* the url of a gallery image's metadata; http://h/img names no file
GalleryUrls ==
    {UrlText(HttpScheme, Host, p, <<>>, UndecodableText) : p \in NamedPaths \cup {<<"/", "i", "m", "g">>}}
    \cup OtherSchemeTexts \cup NoNetlocTexts
NoUrlText == UrlText(<<>>, <<>>, <<>>, <<>>, NoImageText)

FallbackNames == {_FALLBACK_FILE_NAME, PyStr(<<"n">>)}

\* the gallery image ids a call names, and the fallback names it gives: the
\* parameter is Optional[str]
GalleryIds == {PyInt(2), PyInt(0)}
GalleryFallbackNames == FallbackNames \cup {None, PyStr(<<>>)}

\* what GET /api/image-gallery/{id} answers: JSON that is no object, or an object
\* with or without a name (which may be blank) and a url; `url` is the text of
\* its "url", or else BS_URL followed by its "path"
GalleryRecord(dict, name, url) == [dict |-> dict, name |-> name, url |-> url]
GalleryNames == {None, PyStr(<<"m">>), PyStr(<<" ">>)}
GalleryRecords ==
    {GalleryRecord(FALSE, None, NoUrlText)}
    \cup {GalleryRecord(TRUE, name, url) : name \in GalleryNames,
                                          url \in GalleryUrls \cup {NoUrlText}}

\* what _bookstack_request raises when the request fails (lines 736-812)
ApiHttpError == "BookStack API request failed with HTTP 404"
ApiUnreachable == "Unable to reach the BookStack API endpoint"
ApiNotJson == "BookStack API returned a non-JSON response"
ApiErrors == {ApiHttpError, ApiUnreachable, ApiNotJson}
UnexpectedMetadata == "Unexpected response when fetching gallery image metadata"

\* the Content-Type header: absent, or a text in pieces
ContentTypeHeaders ==
    {None, PyStr(<<>>), PyStr(<<"image/png">>), PyStr(<<"IMAGE/PNG", ";", " charset=utf-8">>),
     PyStr(<<"image/png", " ", ";", "q">>), PyStr(<<"Text/Html">>), PyStr(<<"image/jpg">>),
     PyStr(<<"application/octet-stream">>)}
\* the Content-Length header and the length of the body
ResolveContentLengths == {None, PyStr(DecStr(_MAX_IMAGE_SIZE_BYTES + 1))}
BodySizes == {0, 1, _MAX_IMAGE_SIZE_BYTES, _MAX_IMAGE_SIZE_BYTES + 1}

InvalidUrl == "Invalid URL format"
NoUsableUrl == "Gallery image metadata did not include a usable URL"

ResolveOk(image) == [err |-> "", image |-> image]
ResolveRaise(msg) == [err |-> msg, image |-> NoPreparedImage]
NoResolveIn == [kind |-> "", text |-> NoUrlText, id |-> None, fallback |-> None]
NoResolveResp == [content_type |-> None, content_length |-> None, size |-> 0]

ResolveInit ==
    /\ rpc = "idle"
    /\ rin = NoResolveIn
    /\ rurl = NoUrlText
    /\ rname = None
    /\ rresp = NoResolveResp
    /\ rres = ResolveRaise("")
    /\ rnet = <<>>

\* _prepare_image_payload(image, fallback_name) or
\* _prepare_cover_image_from_gallery(image_id, fallback_name=...) is called
ResolveCall ==
    /\ rpc = "idle"
    /\ \/ \E text \in ImageTexts, fallback \in FallbackNames :
            rin' = [kind |-> "text", text |-> text, id |-> None, fallback |-> fallback]
       \/ \E id \in GalleryIds, fallback \in GalleryFallbackNames :
            rin' = [kind |-> "gallery", text |-> NoUrlText, id |-> id, fallback |-> fallback]
    /\ rpc' = "called"
    /\ UNCHANGED <<rurl, rname, rresp, rres, rnet>>
    /\ UNCHANGED <<compileVars, batchVars, cacheVars, toolVars, fetchVars, shelfVars, lruVars>>

\* the call raises msg before any image is fetched
ResolveFail(msg) ==
    /\ rpc' = "failed"
    /\ rres' = ResolveRaise(msg)
    /\ UNCHANGED <<rurl, rname>>

\* _fetch_image_from_url(url, fallback_name), lines 496-501: the url is checked
\* before the request
CheckedFetch(text, fallback_name) ==
    IF _is_url(text)
    THEN rpc' = "fetching" /\ rurl' = text /\ rname' = fallback_name /\ UNCHANGED rres
    ELSE ResolveFail(InvalidUrl)

\* _prepare_image_payload, lines 913-959: a text that looks like a URL is
\* fetched or refused; any other is decoded as a data: URL or as base64
ResolveText ==
    /\ rpc = "called"
    /\ rin.kind = "text"
    /\ IF LooksLikeUrl(rin.text)
       THEN IF ~SchemeAllowed(rin.text)
            THEN ResolveFail(UnsupportedScheme(JoinChars(Lower(rin.text.scheme))))
            ELSE CheckedFetch(rin.text, rin.fallback)
       ELSE LET r == _prepare_image_payload(rin.text.body, rin.fallback)
            IN  /\ rpc' = IF Failed(r) THEN "failed" ELSE "done"
                /\ rres' = IF Failed(r) THEN ResolveRaise(r.err) ELSE ResolveOk(r.val)
                /\ UNCHANGED <<rurl, rname>>
    /\ UNCHANGED <<rin, rresp, rnet>>
    /\ UNCHANGED <<compileVars, batchVars, cacheVars, toolVars, fetchVars, shelfVars, lruVars>>

\* _prepare_cover_image_from_gallery, lines 970-999, with BS_URL and the tokens
\* set: the id is validated, the metadata requested, and the url of the metadata
\* handed to _fetch_image_from_url with the effective name
ResolveGallery ==
    /\ rpc = "called"
    /\ rin.kind = "gallery"
    /\ LET validated_id == _validate_positive_int(rin.id, "'image_id'")
       IN  IF Failed(validated_id)
           THEN ResolveFail(validated_id.err)
           ELSE \/ \E msg \in ApiErrors : ResolveFail(msg)
                \/ \E metadata \in GalleryRecords :
                     LET image_name == _normalise_str(metadata.name)
                     IN  IF ~metadata.dict
                         THEN ResolveFail(UnexpectedMetadata)
                         ELSE IF metadata.url = NoUrlText
                         THEN ResolveFail(NoUsableUrl)
                         ELSE CheckedFetch(metadata.url,
                                  effective_name(image_name, rin.fallback, validated_id.val))
    /\ UNCHANGED <<rin, rresp, rnet>>
    /\ UNCHANGED <<compileVars, batchVars, cacheVars, toolVars, fetchVars, shelfVars, lruVars>>

\* _fetch_image_from_url, lines 503-560: the request is made and answered; the
\* body is `size` bytes long
ResolveFetched ==
    /\ rpc = "fetching"
    /\ rnet' = Append(rnet, rurl)
    /\ \E content_type \in ContentTypeHeaders, content_length \in ResolveContentLengths,
          size \in BodySizes :
         /\ rresp' = [content_type |-> content_type, content_length |-> content_length,
                      size |-> size]
         /\ IF DeclaredTooLarge(content_length)
            THEN rpc' = "failed" /\ rres' = ResolveRaise(TooLarge)
            ELSE IF DownloadTooLarge(size)
            THEN rpc' = "failed" /\ rres' = ResolveRaise(DownloadExceeded)
            ELSE IF size = 0
            THEN rpc' = "failed" /\ rres' = ResolveRaise(EmptyDownload)
            ELSE /\ rpc' = "done"
                 /\ rres' = ResolveOk(PreparedImage(
                                _extract_filename_from_url(rurl, rname),
                                Bytes(size), FetchedMimeType(content_type, rurl)))
    /\ UNCHANGED <<rin, rurl, rname>>
    /\ UNCHANGED <<compileVars, batchVars, cacheVars, toolVars, fetchVars, shelfVars, lruVars>>

\* requests.get, raise_for_status or iter_content raises (lines 562-586)
ResolveFetchFails ==
    /\ rpc = "fetching"
    /\ rnet' = Append(rnet, rurl)
    /\ rpc' = "failed"
    /\ \E msg \in RequestErrors : rres' = ResolveRaise(msg)
    /\ UNCHANGED <<rin, rurl, rname, rresp>>
    /\ UNCHANGED <<compileVars, batchVars, cacheVars, toolVars, fetchVars, shelfVars, lruVars>>

\* the call returns or raises
ResolveReturn ==
    /\ rpc \in {"done", "failed"}
    /\ rpc' = "idle"
    /\ rin' = NoResolveIn
    /\ rurl' = NoUrlText
    /\ rname' = None
    /\ rresp' = NoResolveResp
    /\ rres' = ResolveRaise("")
    /\ rnet' = <<>>
    /\ UNCHANGED <<compileVars, batchVars, cacheVars, toolVars, fetchVars, shelfVars, lruVars>>

----------------------------------------------------------------------------
(* update_bookshelf (everything/src/tools/update_bookshelf.py): the current  *)
(* bookshelf is read, then the update is sent.                               *)

ShelvesBase == "/api/shelves"

\* the arguments; `tokens` tells whether BS_TOKEN_ID and BS_TOKEN_SECRET are set
ShelfArgs(id, name, description, books, tags, tokens) ==
    [id |-> id, name |-> name, description |-> description, books |-> books, tags |-> tags,
     tokens |-> tokens]
NoShelfArgs == ShelfArgs(None, None, None, None, None, FALSE)

ShelfIds == {PyInt(3), PyInt(0), PyStr(<<"3">>)}
ShelfNames == {None, PyStr(<<>>), PyStr(<<"N">>)}
ShelfDescriptions == {None, PyStr(<<>>), PyStr(<<"D">>)}
ShelfBookLists == {None, PyList(<<>>), PyList(<<PyInt(7)>>)}
ShelfTags == {None, PyList(<<Tag(PyStr(<<"k">>), PyStr(<<"v">>))>>)}
ShelfInvocations ==
    {ShelfArgs(id, name, description, books, tags, tokens) :
        id \in ShelfIds, name \in ShelfNames, description \in ShelfDescriptions,
        books \in ShelfBookLists, tags \in ShelfTags, tokens \in BOOLEAN}

\* what GET /api/shelves/{id} may answer: a record with or without name and
\* description, or JSON that is no object
ShelfRecord(isdict, fields) == [isdict |-> isdict, fields |-> fields]
NoShelfRecord == ShelfRecord(FALSE, EmptyMap)
CurrentName == PyStr(<<"S">>)
CurrentDescription == PyStr(<<"T">>)
ShelfRecords ==
    {ShelfRecord(TRUE, ("name" :> CurrentName) @@ ("description" :> CurrentDescription)),
     ShelfRecord(TRUE, ("name" :> CurrentName)),
     ShelfRecord(TRUE, EmptyMap),
     NoShelfRecord}

ShelfRequest(method, id, json) == [method |-> method, path |-> <<ShelvesBase, id>>, json |-> json]

InvalidShelfId == "Valid bookshelf ID is required"
NoShelfField == "At least one field to update must be provided"
NoShelfTokens == "BS_TOKEN_ID and BS_TOKEN_SECRET environment variables must be set."
ShelfGetFailed == "Failed to retrieve current bookshelf data"
ShelfPutFailed == "Network or HTTP error"
ShelfUnexpected == "Unexpected error"

\* lines 59-69: the checks made before any request
ShelfValidation(a) ==
    IF ~(IsInt(a.id) /\ a.id[2] > 0) THEN InvalidShelfId
    ELSE IF ~(Truthy(a.name) \/ Truthy(a.description) \/ Truthy(a.books) \/ Truthy(a.tags))
    THEN NoShelfField
    ELSE IF ~a.tokens THEN NoShelfTokens
    ELSE ""

\* current_data.get(key, "")
CurrentOr(current, key) == IF key \in DOMAIN current THEN current[key] ELSE PyStr(<<>>)

\* lines 99-106: the payload of the update
MutShelfPayloadGivenOnly(a, current) ==
    [k \in {x \in {"name", "description", "books", "tags"} : ~IsNone(a[x])} |-> a[k]]

ShelfPayload(a, current) ==
    LET base == ("name" :> (IF ~IsNone(a.name) THEN a.name ELSE CurrentOr(current, "name")))
                @@ ("description" :> (IF ~IsNone(a.description) THEN a.description
                                      ELSE CurrentOr(current, "description")))
        with_books == IF ~IsNone(a.books) THEN Put(base, "books", a.books) ELSE base
    IN  IF ~IsNone(a.tags) THEN Put(with_books, "tags", a.tags) ELSE with_books

ShelfInit ==
    /\ spc = "idle"
    /\ sargs = NoShelfArgs
    /\ scur = NoShelfRecord
    /\ scalls = <<>>
    /\ sres = ""

\* the call, lines 59-69
ShelfCall ==
    /\ spc = "idle"
    /\ \E a \in ShelfInvocations :
         /\ sargs' = a
         /\ sres' = ShelfValidation(a)
         /\ spc' = IF ShelfValidation(a) = "" THEN "get" ELSE "done"
    /\ UNCHANGED <<scur, scalls>>
    /\ UNCHANGED <<compileVars, batchVars, cacheVars, toolVars, fetchVars, resolveVars, lruVars>>

\* session.get answers (lines 88-94)
ShelfGetOk ==
    /\ spc = "get"
    /\ scalls' = Append(scalls, ShelfRequest("GET", sargs.id[2], NoBody))
    /\ \E current \in ShelfRecords : scur' = current
    /\ spc' = "put"
    /\ UNCHANGED <<sargs, sres>>
    /\ UNCHANGED <<compileVars, batchVars, cacheVars, toolVars, fetchVars, resolveVars, lruVars>>

\* session.get, raise_for_status or json() raises (lines 95-96)
ShelfGetFail ==
    /\ spc = "get"
    /\ scalls' = Append(scalls, ShelfRequest("GET", sargs.id[2], NoBody))
    /\ sres' = ShelfGetFailed
    /\ spc' = "done"
    /\ UNCHANGED <<sargs, scur>>
    /\ UNCHANGED <<compileVars, batchVars, cacheVars, toolVars, fetchVars, resolveVars, lruVars>>

\* lines 99-115: the payload is built and sent. current_data.get is called for
\* a field whose argument is None, and raises when the answer was no object
\* (line 118); with both arguments given the answer is not looked at
ShelfPut ==
    /\ spc = "put"
    /\ IF ~scur.isdict /\ (IsNone(sargs.name) \/ IsNone(sargs.description))
       THEN sres' = ShelfUnexpected /\ UNCHANGED scalls
       ELSE /\ scalls' = Append(scalls, ShelfRequest("PUT", sargs.id[2],
                                                     Body(ShelfPayload(sargs, scur.fields))))
            /\ \E answer \in {"", ShelfPutFailed} : sres' = answer
    /\ spc' = "done"
    /\ UNCHANGED <<sargs, scur>>
    /\ UNCHANGED <<compileVars, batchVars, cacheVars, toolVars, fetchVars, resolveVars, lruVars>>

\* the call returns
ShelfReturn ==
    /\ spc = "done"
    /\ spc' = "idle"
    /\ sargs' = NoShelfArgs
    /\ scur' = NoShelfRecord
    /\ scalls' = <<>>
    /\ sres' = ""
    /\ UNCHANGED <<compileVars, batchVars, cacheVars, toolVars, fetchVars, resolveVars, lruVars>>

----------------------------------------------------------------------------
(* SmartCache (cache.py): get, set and the eviction of set, each under the   *)
(* lock of the cache, so each is one step.                                   *)

\* max_size and default_ttl of the cache modelled, and how far the model runs
MaxSize == 2
DefaultTtl == 2
MaxLruTicks == 2
MaxLruOps == 5

\* the keys, as characters: "a", "b" and "ab"
LruKeys == {<<"a">>, <<"b">>, <<"a", "b">>}
\* the ttl argument of set, and the pattern argument of invalidate
LruTtls == {None, PyInt(0), PyInt(1)}
LruPatterns == {None, PyStr(<<>>), PyStr(<<"a">>), PyStr(<<"b", "a">>)}

\* _cache is a dict: its entries in insertion order
LruEntry(key, hits, timestamp, ttl) ==
    [key |-> key, hits |-> hits, timestamp |-> timestamp, ttl |-> ttl]
LruHas(cache, key) == \E j \in 1..Len(cache) : cache[j].key = key
LruIndex(cache, key) == CHOOSE j \in 1..Len(cache) : cache[j].key = key
LruDel(cache, key) == SelectSeq(cache, LAMBDA e : e.key # key)
LruKeysOf(cache) == {cache[j].key : j \in 1..Len(cache)}

\* CacheEntry.is_expired (line 25)
is_expired(entry, time) == time - entry.timestamp > entry.ttl

\* pattern in k
Contains(k, pattern) ==
    \E i \in 0..(Len(k) - Len(pattern)) : SubSeq(k, i + 1, i + Len(pattern)) = pattern

\* the key of line 91 is smaller for e than for f
LruKeyLess(e, f) == e.hits < f.hits \/ (e.hits = f.hits /\ e.timestamp < f.timestamp)

\* min(self._cache.keys(), key=...) of lines 89-92: the first entry no other is below
lru_key(cache) ==
    cache[CHOOSE j \in 1..Len(cache) :
            /\ \A i \in 1..Len(cache) : ~LruKeyLess(cache[i], cache[j])
            /\ \A i \in 1..(j - 1) : LruKeyLess(cache[j], cache[i])].key

\* _evict_lru (lines 83-94)
_evict_lru(cache) == IF cache = <<>> THEN cache ELSE LruDel(cache, lru_key(cache))

NoLruOp == [op |-> "", key |-> <<>>, before |-> {}, oldest |-> {}, n |-> 0]

LruInit ==
    /\ lcache = <<>>
    /\ lclock = 0
    /\ lused = [k \in LruKeys |-> 0]
    /\ lop = NoLruOp

\* time passes
LruTick ==
    /\ lclock < MaxLruTicks
    /\ lclock' = lclock + 1
    /\ UNCHANGED <<lcache, lused, lop>>
    /\ UNCHANGED <<compileVars, batchVars, cacheVars, toolVars, fetchVars, resolveVars, shelfVars>>

\* the keys in the cache that were used longest ago (history)
OldestUsed(cache) ==
    {k \in LruKeysOf(cache) : \A other \in LruKeysOf(cache) : lused[k] <= lused[other]}

\* get (lines 52-68)
LruGet ==
    /\ lop.n < MaxLruOps
    /\ \E key \in LruKeys :
         /\ lop' = [op |-> "get", key |-> key, before |-> LruKeysOf(lcache),
                    oldest |-> OldestUsed(lcache), n |-> lop.n + 1]
         /\ IF ~LruHas(lcache, key)
            THEN UNCHANGED <<lcache, lused>>
            ELSE IF is_expired(lcache[LruIndex(lcache, key)], lclock)
            THEN lcache' = LruDel(lcache, key) /\ UNCHANGED lused
            ELSE /\ lcache' = [lcache EXCEPT ![LruIndex(lcache, key)].hits = @ + 1]
                 /\ lused' = [lused EXCEPT ![key] = lop.n + 1]
    /\ UNCHANGED lclock
    /\ UNCHANGED <<compileVars, batchVars, cacheVars, toolVars, fetchVars, resolveVars, shelfVars>>

\* set (lines 70-81)
LruSet ==
    /\ lop.n < MaxLruOps
    /\ \E key \in LruKeys, ttl \in LruTtls :
         LET kept == IF Len(lcache) >= MaxSize /\ ~LruHas(lcache, key)
                     THEN _evict_lru(lcache) ELSE lcache
             entry == LruEntry(key, 0, lclock, Or(ttl, PyInt(DefaultTtl))[2])
         IN  /\ lcache' = IF LruHas(kept, key)
                          THEN [kept EXCEPT ![LruIndex(kept, key)] = entry]
                          ELSE Append(kept, entry)
             /\ lused' = [lused EXCEPT ![key] = lop.n + 1]
             /\ lop' = [op |-> "set", key |-> key, before |-> LruKeysOf(lcache),
                        oldest |-> OldestUsed(lcache), n |-> lop.n + 1]
    /\ UNCHANGED lclock
    /\ UNCHANGED <<compileVars, batchVars, cacheVars, toolVars, fetchVars, resolveVars, shelfVars>>

\* invalidate (lines 96-108): without pattern the cache is cleared, with one every
\* entry whose key contains it is deleted
LruInvalidate ==
    /\ lop.n < MaxLruOps
    /\ \E pattern \in LruPatterns :
         /\ lcache' = IF IsNone(pattern) THEN <<>>
                       ELSE SelectSeq(lcache, LAMBDA e : ~Contains(e.key, pattern[2]))
         /\ lop' = [op |-> "invalidate", key |-> <<>>, before |-> LruKeysOf(lcache),
                    oldest |-> OldestUsed(lcache), n |-> lop.n + 1]
    /\ UNCHANGED <<lclock, lused>>
    /\ UNCHANGED <<compileVars, batchVars, cacheVars, toolVars, fetchVars, resolveVars, shelfVars>>

----------------------------------------------------------------------------
(* Specifications *)

Init ==
    /\ CompileInit /\ BatchInit /\ CacheInit /\ ToolInit /\ FetchInit
    /\ ResolveInit /\ ShelfInit /\ LruInit

\* bookstack_manage_content compiling one request after another
NextCompile ==
    \/ ContentCompile
    \/ ContentReturn

SpecCompile == Init /\ [][NextCompile]_vars

\* bookstack_batch_operations, one invocation after another
NextBatch ==
    \/ BatchStart
    \/ BatchItemBuild
    \/ BatchItemError
    \/ BatchItemDry
    \/ BatchItemSendOk
    \/ BatchItemSendFail
    \/ BatchSliceEnd
    \/ BatchReturn
    \/ BatchRepeatLive
    \/ BatchReset

SpecBatch == Init /\ [][NextBatch]_vars

\* the loop is straight-line code: a step that can be taken is taken, and a request
\* is answered or raises (the transport has a timeout)
\* BatchItemBuild can be taken: ENABLED <<BatchItemBuild>>_vars, written out
BuildEnabled == bpc = "loop" /\ bidx < total /\ boff < SliceLen(bidx)

BatchFairness ==
    /\ ([]<>(~BuildEnabled) \/ []<><<BatchItemBuild>>_vars)
    /\ WF_vars(BatchItemError)
    /\ WF_vars(BatchItemDry)
    /\ WF_vars(BatchItemSendOk \/ BatchItemSendFail)
    /\ WF_vars(BatchSliceEnd)
    /\ WF_vars(BatchReturn)

SpecBatchFair == Init /\ [][NextBatch]_vars /\ BatchFairness

ImageStep(i) ==
    \/ ListLookup(i)
    \/ ListCheck(i)
    \/ ListFetchOk(i)
    \/ ListFetchFail(i)
    \/ ListStore(i)
    \/ MutationRequestOk(i)
    \/ MutationRequestFail(i)
    \/ MutationInvalidate(i)
    \/ ImageReturn(i)

\* bookstack_manage_images called by one caller, a call after the previous has returned
NextCacheSeq ==
    \/ Tick
    \/ \E i \in Invs : AllIdle /\ ListStart(i, ListArgSamples)
    \/ \E i \in Invs : AllIdle /\ MutationStart(i, ImageMutations)
    \/ \E i \in Invs : ImageStep(i)

SpecCacheSeq == Init /\ [][NextCacheSeq]_vars

\* bookstack_manage_images called concurrently
NextCache ==
    \/ Tick
    \/ \E i \in Invs : ListStart(i, ConcurrentListArgs)
    \/ \E i \in Invs : MutationStart(i, ConcurrentMutations)
    \/ \E i \in Invs : ImageStep(i)

SpecCache == Init /\ [][NextCache]_vars

\* bookstack_manage_content and bookstack_manage_images, one call at a time
NextTool ==
    \/ Configure
    \/ ManageContentStart
    \/ ManageImagesStart
    \/ ResolveNone
    \/ ResolveLocal
    \/ ResolveFetch
    \/ GalleryStart
    \/ GalleryFail
    \/ GalleryMetadata
    \/ FetchOk
    \/ FetchFail
    \/ Send
    \/ TransportOk
    \/ TransportFail
    \/ ToolReturn

SpecTool == Init /\ [][NextTool]_vars

\* _fetch_image_from_url, one call at a time
NextFetch ==
    \/ FetchCall
    \/ FetchRequestFails
    \/ FetchResponse
    \/ FetchChunk
    \/ FetchStreamFails
    \/ FetchEnd
    \/ FetchReturn

SpecFetch == Init /\ [][NextFetch]_vars

\* the image payload resolver, one call after another
NextResolve ==
    \/ ResolveCall
    \/ ResolveText
    \/ ResolveGallery
    \/ ResolveFetched
    \/ ResolveFetchFails
    \/ ResolveReturn

SpecResolve == Init /\ [][NextResolve]_vars

\* update_bookshelf, one call after another
NextShelf ==
    \/ ShelfCall
    \/ ShelfGetOk
    \/ ShelfGetFail
    \/ ShelfPut
    \/ ShelfReturn

SpecShelf == Init /\ [][NextShelf]_vars

\* one SmartCache
NextLru ==
    \/ LruTick
    \/ LruGet
    \/ LruSet
    \/ LruInvalidate

SpecLru == Init /\ [][NextLru]_vars

----------------------------------------------------------------------------
(* Properties of bookstack_batch_operations, under SpecBatch *)

\* the indexes 0 .. n-1 in order
FirstIndexes(n) == [j \in 1..n |-> j - 1]
IndexesOf(records) == [j \in 1..Len(records) |-> records[j].index]
Running == bpc \in {"loop", "built", "done"}

\* C1: with continue_on_error = false, once an item has failed the run is over:
\* there is exactly one error, of index k, the successes are exactly those of the
\* indexes 0..k-1, the items handed to build_prepared are exactly 0..k, and no
\* request was sent for an index above k; whatever batch_size is.
C1_StopsAtFirstFailure ==
    (Running /\ ~binp.continue_on_error /\ errors # <<>>) =>
        /\ bpc = "done"
        /\ Len(errors) = 1
        /\ IndexesOf(successes) = FirstIndexes(errors[1].index)
        /\ built = FirstIndexes(errors[1].index + 1)
        /\ \A j \in 1..Len(calls) : calls[j].index <= errors[1].index

\* the second of three items fails, in slices of two
C1_Witness ==
    /\ bpc = "done"
    /\ ~binp.continue_on_error
    /\ total = 3
    /\ binp.batch_size = PyInt(2)
    /\ Len(errors) = 1
    /\ errors[1].index = 1
    /\ Len(successes) = 1

\* C2: with continue_on_error = true, a finished run has handed every item to
\* build_prepared exactly once and in input order, requests were sent in input
\* order, every index is in exactly one of results and errors, the counts add up
\* to the total, and an update or delete item without an id is among the errors.
C2_EveryItemAttemptedOnce ==
    (bpc = "done" /\ binp.continue_on_error) =>
        /\ built = FirstIndexes(total)
        /\ Len(successes) + Len(errors) = total
        /\ \A n \in 0..(total - 1) :
             Cardinality({j \in 1..Len(successes) : successes[j].index = n})
               + Cardinality({j \in 1..Len(errors) : errors[j].index = n}) = 1
        /\ \A j \in 1..Len(calls) : \A k \in 1..Len(calls) :
             j < k => calls[j].index < calls[k].index
        /\ \A n \in 1..total :
             (binp.operation # "bulk_create" /\ IsNone(binp.items[n].id))
                => \E j \in 1..Len(errors) : errors[j].index = n - 1

\* an update whose first item has no id, followed by items that succeed
C2_Witness ==
    /\ bpc = "done"
    /\ binp.continue_on_error
    /\ binp.operation = "bulk_update"
    /\ total = 3
    /\ IsNone(binp.items[1].id)
    /\ IndexesOf(errors) = <<0>>
    /\ IndexesOf(successes) = <<1, 2>>

\* C3: a dry run never hands a request to the transport, and when it has finished
\* every item it attempted that compiles is a success carrying the compiled method,
\* path, params and payload (and every other attempted item is an error).
C3_DryRunSendsNothing ==
    (Running /\ binp.dry_run) =>
        /\ calls = <<>>
        /\ bpc = "done" =>
             \A n \in 1..Len(built) :
                LET p == build_prepared(binp.operation, binp.entity_type,
                                        binp.items[built[n] + 1])
                IN  IF Failed(p)
                    THEN \E j \in 1..Len(errors) : errors[j].index = built[n]
                    ELSE \E j \in 1..Len(successes) :
                            /\ successes[j].index = built[n]
                            /\ successes[j].method = p.method
                            /\ successes[j].path = p.path
                            /\ successes[j].params = None
                            /\ successes[j].payload = p.json

\* a finished dry run of creates with two previews, one of them with a body
C3_Witness ==
    /\ bpc = "done"
    /\ binp.dry_run
    /\ binp.operation = "bulk_create"
    /\ Len(successes) = 2
    /\ successes[1].method = "POST"
    /\ successes[1].payload.present
    /\ calls = <<>>

\* what a dry-run record previews, and what the transport is handed
PreviewOf(record) == <<record.method, record.path, record.payload>>
SentOf(call) == <<call.method, call.path, call.json>>

\* C4: when a dry run is repeated as a live run (same operation, entity type, items,
\* continue_on_error and batch_size) and no request of the live run fails, the
\* requests handed to the transport are, item by item, the dry run's previews.
C4_DryRunPreviewsLiveRun ==
    (bpc = "done" /\ prev.set
       /\ \A j \in 1..Len(errors) : errors[j].error # TransportFailure) =>
        /\ Len(calls) = Len(prev.results)
        /\ \A j \in 1..Len(calls) :
             /\ calls[j].index = prev.results[j].index
             /\ SentOf(calls[j]) = PreviewOf(prev.results[j])

\* a live run that repeated a dry run and sent two requests with bodies
C4_Witness ==
    /\ bpc = "done"
    /\ prev.set
    /\ Len(calls) = 2
    /\ calls[1].json.present
    /\ calls[2].json.present
    /\ Len(prev.results) = 2

\* the single call with the same id and fields as a batch item
SingleCall(operation, entity_type, item) ==
    LET data == _coerce_json_object(item.data, "batch item 'data'").val
    IN  CASE operation = "bulk_create" ->
               _build_content_operation("create", entity_type, ItemArgs(None, data))
          [] operation = "bulk_update" ->
               _build_content_operation("update", entity_type, ItemArgs(item.id, data))
          [] operation = "bulk_delete" ->
               _build_content_operation("delete", entity_type,
                                        [NoArgs EXCEPT !.entity_id = item.id])

\* the item has a decodable data and, where one is required, a positive id
WellFormedItem(operation, item) ==
    /\ ~Failed(_coerce_json_object(item.data, "batch item 'data'"))
    /\ operation # "bulk_create" => ~Failed(_validate_positive_int(item.id, "'id'"))

\* C5: a batch item with a valid id (where required) and data compiles to what the
\* single create, update or delete with the same id and fields compiles to: a
\* bulk_delete of id n is DELETE base/n.
C5_BatchReducesToSingle ==
    (bpc = "built" /\ WellFormedItem(binp.operation, CurrentItem)) =>
        prepared = SingleCall(binp.operation, binp.entity_type, CurrentItem)

----------------------------------------------------------------------------
(* Properties of the image list cache *)

\* the parameters of invocation i were stored, by a call since the last mutation,
\* no longer than the TTL ago
StoredWithinTTL(i) ==
    /\ StoredAt(AsMapping(QueryOf(i))).time >= 0
    /\ StoredAt(AsMapping(QueryOf(i))).version = remote
    /\ now - StoredAt(AsMapping(QueryOf(i))).time <= _LIST_CACHE_TTL_SECONDS

\* invocation i leaves _get_cached_list in this step
LeavesCacheGet(i) ==
    /\ inv[i].pc \in {"lookup", "check"}
    /\ inv'[i].pc \in {"fetch", "done"}

\* C6 (under SpecCacheSeq): a list call whose parameters, in whatever order they
\* were given, were stored within the TTL and before any later image mutation is
\* answered from the cache (cached = true, no request sent); a list call whose
\* parameters were not stored, or were stored longer ago than the TTL, goes to the
\* transport, which it calls once.
C6_SecondListServedFromCache ==
    [][\A i \in Invs :
         /\ LeavesCacheGet(i) =>
              IF StoredWithinTTL(i)
              THEN inv'[i].pc = "done" /\ inv'[i].cached /\ inv'[i].sent = 0
              ELSE inv'[i].pc = "fetch" /\ ~inv'[i].cached /\ inv'[i].sent = 0
         /\ (inv[i].pc = "fetch" /\ inv'[i].pc # "fetch") => inv'[i].sent = 1
      ]_vars

\* a call with the filters in one order is answered from what a call with the
\* filters in the other order stored exactly TTL seconds before
C6_Witness ==
    \E i \in Invs :
        /\ inv[i].pc = "done"
        /\ inv[i].cached
        /\ inv[i].sent = 0
        /\ inv[i].args.filters = FiltersTypeName
        /\ StoredAt(AsMapping(QueryOf(i))).args.filters = FiltersNameType
        /\ now - StoredAt(AsMapping(QueryOf(i))).time = _LIST_CACHE_TTL_SECONDS

\* C7 (under SpecCacheSeq): when an image create, update or delete has completed
\* the cache holds no entry, and as long as no list call has completed since, a
\* list call finds no entry, whatever its parameters, and goes to the transport.
C7_MutationClearsWholeCache ==
    /\ \A i \in Invs :
         (inv[i].op \in ImageMutations /\ inv[i].pc = "done") => LIST_CACHE = EmptyCache
    /\ lastDone = "mutation" =>
         /\ AllIdle => LIST_CACHE = EmptyCache
         /\ \A i \in Invs :
              inv[i].op = "list" => (inv[i].pc # "check" /\ ~inv[i].cached)

\* the list call after a mutation asks the remote again for parameters that were
\* stored, in the same second, before the mutation
C7_Witness ==
    \E i \in Invs :
        /\ lastDone = "mutation"
        /\ inv[i].op = "list"
        /\ inv[i].pc = "store"
        /\ inv[i].sent = 1
        /\ inv[i].args.filters = FiltersNameType
        /\ StoredAt(AsMapping(QueryOf(i))).time = now
        /\ StoredAt(AsMapping(QueryOf(i))).version < remote
        /\ LIST_CACHE = EmptyCache

\* invocation i is inside _get_cached_list: it has read the entry and has not yet
\* compared its age or removed it
InCacheGet(i) == inv[i].pc = "check"

\* C8 (under SpecCache): no two invocations are inside an access to the list cache
\* at the same time.
C8_CacheAccessSerialized ==
    \A i \in Invs : \A j \in Invs :
        (i # j) => ~(InCacheGet(i) /\ InCacheGet(j))

----------------------------------------------------------------------------
(* Properties of _build_content_operation, under SpecCompile *)

NoFieldToUpdate == "Provide at least one field to update"
ConflictingContent == "Provide either markdown/content or html, not both"

Compiling(operation) == creq # NoReq /\ creq.operation = operation

\* the invocation passes an id and at most a cover_image, and nothing else
OnlyIdAndCover(a) ==
    /\ ~IsNone(a.entity_id)
    /\ a.updates.map = EmptyMap
    /\ a.updates.kind \in {"none", "map"}
    /\ [a EXCEPT !.cover_image = None, !.updates = NoUpdates]
         = [NoArgs EXCEPT !.entity_id = a.entity_id]

BookWithCover == creq.entity_type = "book" /\ ~IsNone(creq.a.cover_image)

\* C9: an update never compiles to a request with an empty body, except a book
\* update that carries a cover_image; an update given nothing but its id fails
\* with 'Provide at least one field to update', and given only its id and a
\* cover_image it compiles to PUT base/{id} with an empty body for a book and
\* fails with that error for every other entity type.
C9_EmptyUpdateRejected ==
    Compiling("update") =>
        /\ ~Failed(cres) =>
             /\ cres.method = "PUT"
             /\ cres.path = IdPath(_ENTITY_BASE_PATHS[creq.entity_type], creq.a.entity_id)
             /\ cres.json.present
             /\ cres.json.body = EmptyMap => BookWithCover
        /\ cres.err = NoFieldToUpdate => ~BookWithCover
        /\ OnlyIdAndCover(creq.a) =>
             IF BookWithCover
             THEN cres = PreparedOperation("PUT",
                            IdPath(_ENTITY_BASE_PATHS["book"], creq.a.entity_id),
                            Body(EmptyMap))
             ELSE cres.err = NoFieldToUpdate

\* a book update with a cover_image and no other field
C9_Witness ==
    /\ Compiling("update")
    /\ BookWithCover
    /\ OnlyIdAndCover(creq.a)
    /\ cres.method = "PUT"
    /\ cres.json.body = EmptyMap

\* the values an invocation gives for some fields, as arguments or in `updates`
GivenValues(a, fields) ==
    {v \in {a[f] : f \in fields} \cup
           {a.updates.map[f] : f \in fields \cap DOMAIN a.updates.map} : ~IsNone(v)}
NonBlank(v) == IsStr(v) /\ ~IsNone(_normalise_str(v))
\* some value is given for the fields, and every value given is a non-blank text
GivenNonEmpty(a, fields) ==
    /\ GivenValues(a, fields) # {}
    /\ \A v \in GivenValues(a, fields) : NonBlank(v)
\* no value is given for the fields
NotGiven(a, fields) == GivenValues(a, fields) = {}

\* C10: a page create or update that gives markdown (or content) and html, both
\* non-empty, as arguments or in `updates`, fails; one that gives exactly one of
\* them and compiles carries it under 'markdown' (for markdown or content) or
\* under 'html', and not under the other key.
C10_ConflictingContentRejected ==
    (creq # NoReq /\ creq.entity_type = "page" /\ creq.operation \in {"create", "update"}) =>
        /\ (GivenNonEmpty(creq.a, {"markdown", "content"}) /\ GivenNonEmpty(creq.a, {"html"}))
             => cres.err = ConflictingContent
        /\ (~Failed(cres) /\ GivenNonEmpty(creq.a, {"markdown", "content"})
                          /\ NotGiven(creq.a, {"html"}))
             => ("markdown" \in DOMAIN cres.json.body /\ "html" \notin DOMAIN cres.json.body)
        /\ (~Failed(cres) /\ GivenNonEmpty(creq.a, {"html"})
                          /\ NotGiven(creq.a, {"markdown", "content"}))
             => ("html" \in DOMAIN cres.json.body /\ "markdown" \notin DOMAIN cres.json.body)

ScopeRequired == "Provide either 'book_id' or 'chapter_id' when creating a page"
PageBase == <<_ENTITY_BASE_PATHS["page"]>>

\* the checks the code makes before it looks at the fields of the entity pass:
\* `updates` decodes, the tags are well formed and, for a create, there is a name
EarlierChecksPass(operation, a) ==
    /\ ~Failed(_coerce_json_object(a.updates, "'updates'"))
    /\ ~Failed(_format_tags(a.tags))
    /\ operation = "create" => \E v \in GivenValues(a, {"name"}) : NonBlank(v)
    /\ operation = "update" => ~IsNone(a.entity_id)

\* a page create that gives a name as argument and nothing else but scope ids,
\* as arguments or in `updates`, all of them positive
PlainPageCreate(a) ==
    /\ NonBlank(a.name)
    /\ a.updates.kind \in {"none", "map", "text_object", "text_blank"}
    /\ DOMAIN a.updates.map \subseteq {"book_id", "chapter_id"}
    /\ [a EXCEPT !.name = None, !.book_id = None, !.chapter_id = None, !.updates = NoUpdates]
         = NoArgs
    /\ \A v \in GivenValues(a, {"book_id", "chapter_id"}) : IsInt(v) /\ v[2] > 0

\* C11: a page create that gives neither book_id nor chapter_id, as argument or in
\* `updates`, does not compile, and when the earlier checks pass its error is the
\* scope-required one; that error is given to no create that names a scope; a page
\* create that compiles is POST /api/pages whose body has book_id exactly when a
\* book_id was given and chapter_id exactly when a chapter_id was given, with a
\* value that was given; and a create of a name and positive scope ids compiles.
C11_PageCreateNeedsScope ==
    (Compiling("create") /\ creq.entity_type = "page") =>
        /\ NotGiven(creq.a, {"book_id", "chapter_id"}) =>
             /\ Failed(cres)
             /\ EarlierChecksPass("create", creq.a) => cres.err = ScopeRequired
        /\ cres.err = ScopeRequired => NotGiven(creq.a, {"book_id", "chapter_id"})
        /\ ~Failed(cres) =>
             /\ cres.method = "POST"
             /\ cres.path = PageBase
             /\ cres.json.present
             /\ \A f \in {"book_id", "chapter_id"} :
                  /\ f \in DOMAIN cres.json.body <=> ~NotGiven(creq.a, {f})
                  /\ f \in DOMAIN cres.json.body =>
                       cres.json.body[f] \in GivenValues(creq.a, {f})
        /\ (PlainPageCreate(creq.a) /\ ~NotGiven(creq.a, {"book_id", "chapter_id"}))
             => ~Failed(cres)

\* a page create with a chapter_id and no book_id, compiled
C11_Witness ==
    /\ Compiling("create")
    /\ creq.entity_type = "page"
    /\ PlainPageCreate(creq.a)
    /\ NotGiven(creq.a, {"book_id"})
    /\ ~Failed(cres)
    /\ cres.path = PageBase
    /\ DOMAIN cres.json.body = {"name", "chapter_id"}

\* the fields the compiler reads for an entity type, as argument and in `updates`
RelevantFields(entity_type) ==
    {"name", "description"} \cup
    CASE entity_type = "book" -> {"image_id"}
      [] entity_type = "bookshelf" -> {"books"}
      [] entity_type = "chapter" -> {"book_id", "priority"}
      [] entity_type = "page" -> {"book_id", "chapter_id", "markdown", "html", "priority"}

\* a value that is given, not empty, and acceptable for the field: a non-blank
\* text, a positive id, a priority from 0, a non-empty list of positive book ids
NonEmptyValue(f, v) ==
    CASE IsNone(v) -> FALSE
      [] IsStr(v) -> NonBlank(v)
      [] IsInt(v) -> IF f = "priority" THEN v[2] >= 0 ELSE v[2] > 0
      [] IsList(v) -> v[2] # <<>> /\ ~Failed(_normalise_books(v))

\* the value as the payload carries it: a text is stripped
AsCarried(v) == IF IsStr(v) THEN _normalise_str(v) ELSE v

\* C12: when a field the compiler reads is given both as an explicit argument and
\* in `updates`, with different non-empty values, a compiled create or update
\* carries the value of the explicit argument.
C12_ExplicitArgumentWins ==
    (creq # NoReq /\ creq.operation \in {"create", "update"} /\ ~Failed(cres)) =>
        \A f \in RelevantFields(creq.entity_type) :
            (/\ f \in DOMAIN creq.a.updates.map
             /\ NonEmptyValue(f, creq.a[f])
             /\ NonEmptyValue(f, creq.a.updates.map[f])
             /\ creq.a[f] # creq.a.updates.map[f])
            => (f \in DOMAIN cres.json.body /\ cres.json.body[f] = AsCarried(creq.a[f]))

\* C13: an invocation that gives a text argument as the empty string compiles to
\* what the same invocation without that argument compiles to: the same
\* PreparedOperation or the same error.
C13_EmptyStringIsOmitted ==
    creq # NoReq =>
        \A f \in StrFields :
            creq.a[f] = PyStr(<<>>) =>
                cres = _build_content_operation(creq.operation, creq.entity_type,
                                                [creq.a EXCEPT ![f] = None])

\* C14: the body of a compiled create or update has no key whose value is None or
\* the empty string.
C14_BodyIsCompacted ==
    (creq # NoReq /\ creq.operation \in {"create", "update"} /\ ~Failed(cres)) =>
        /\ cres.json.present
        /\ \A k \in DOMAIN cres.json.body :
             ~IsNone(cres.json.body[k]) /\ cres.json.body[k] # PyStr(<<>>)

\* a book create whose `updates` carry an empty 'content' and a null 'slug', which
\* the body leaves out
C14_Witness ==
    /\ Compiling("create")
    /\ creq.entity_type = "book"
    /\ ~Failed(cres)
    /\ "content" \in DOMAIN creq.a.updates.map
    /\ creq.a.updates.map["content"] = PyStr(<<>>)
    /\ "slug" \in DOMAIN creq.a.updates.map
    /\ IsNone(creq.a.updates.map["slug"])
    /\ DOMAIN cres.json.body = {"name", "description"}

InvalidTagErrors == {"Tag entries require a non-empty 'name'", "Tag entries require a 'value'"}

\* a tag without a name, with an empty name, or without a value
BadTag(t) == ~Truthy(t[2]) \/ IsNone(t[3])
HasBadTag(v) == IsList(v) /\ \E j \in 1..Len(v[2]) : BadTag(v[2][j])

\* C15: a create or update whose tags, given as the argument or in `updates`, have
\* an entry without a name or without a value fails, with the invalid-tag error
\* when `updates` decodes; and no compiled body carries such a tag.
C15_InvalidTagsRejected ==
    (creq # NoReq /\ creq.operation \in {"create", "update"}) =>
        /\ (HasBadTag(creq.a.tags) \/ HasBadTag(Get(creq.a.updates.map, "tags"))) =>
             /\ Failed(cres)
             /\ ~Failed(_coerce_json_object(creq.a.updates, "'updates'"))
                  => cres.err \in InvalidTagErrors
        /\ (~Failed(cres) /\ "tags" \in DOMAIN cres.json.body) =>
             ~HasBadTag(cres.json.body["tags"])

----------------------------------------------------------------------------
(* Properties of one call of bookstack_manage_content or                    *)
(* bookstack_manage_images, under SpecTool *)

BookBase == _ENTITY_BASE_PATHS["book"]

\* the requests of the call made to the book endpoint
ToBookEndpoint(r) == r.kind # "fetch" /\ r.path[1] = BookBase
BookRequests == SelectSeq(net, ToBookEndpoint)

\* the call has handed its own request to the transport
RequestMade == tpc \in {"sent", "done"} \/ (tpc = "failed" /\ terr.at = "transport")

\* a form field holds the value of a payload field: a text as it is, an int as its
\* decimal digits, a list as a JSON array
FormFieldHolds(field, value) ==
    /\ IsStr(field)
    /\ IsStr(value) => field = value
    /\ IsInt(value) =>
         /\ field[2] # <<>>
         /\ \A j \in 1..Len(field[2]) : IsDigit(field[2][j])
         /\ DecVal(field[2]) = value[2]
    /\ IsList(value) =>
         /\ field[2] = JsonDumps(value)
         /\ Head(field[2]) = "[" /\ field[2][Len(field[2])] = "]"

\* C16: when a book create or update has resolved an image, it sends no JSON
\* request to the book endpoint, and once it has made its request exactly one
\* request has gone to the book endpoint: a multipart POST to the compiled path
\* whose file part 'image' is the resolved image and whose form fields are the
\* fields of the compiled body other than image_id and cover_image (texts as they
\* are, ints as decimal digits, lists JSON-encoded), plus _method=PUT for an update.
C16_BookImageIsMultipart ==
    (treq.tool = "content" /\ timg.present) =>
        /\ WantsCover
        /\ \A j \in 1..Len(BookRequests) : BookRequests[j].kind = "form"
        /\ ~RequestMade => BookRequests = <<>>
        /\ RequestMade =>
             /\ Len(BookRequests) = 1
             /\ net[Len(net)] = BookRequests[1]
             /\ BookRequests[1].method = "POST"
             /\ BookRequests[1].path = tprep.path
             /\ BookRequests[1].files = timg
             /\ BookRequests[1].data.present
             /\ LET data == BookRequests[1].data.body
                     body == tprep.json.body
                     fields == DOMAIN body \ {"image_id", "cover_image"}
                IN  /\ DOMAIN data = fields \cup
                           (IF treq.operation = "update" THEN {"_method"} ELSE {})
                    /\ treq.operation = "update" => data["_method"] = PyStr(<<"P", "U", "T">>)
                    /\ \A k \in fields \ {"_method"} : FormFieldHolds(data[k], body[k])

\* a book update with tags whose cover comes from the gallery: the metadata
\* request, the fetch, then the multipart request with the tags JSON-encoded
C16_Witness ==
    /\ treq.tool = "content"
    /\ treq.operation = "update"
    /\ tpc = "done"
    /\ timg.present
    /\ Len(net) = 3
    /\ net[1].kind = "json"
    /\ net[2].kind = "fetch"
    /\ net[3].kind = "form"
    /\ net[3].method = "POST"
    /\ DOMAIN net[3].data.body = {"tags", "_method"}
    /\ Head(net[3].data.body["tags"][2]) = "["

MissingId(operation) ==
    CASE operation = "read" -> "'id' is required when reading an entity"
      [] operation = "update" -> "'id' is required when updating an entity"
      [] operation = "delete" -> "'id' is required when deleting an entity"
      [] OTHER -> ""

\* C17: read and delete with an id compile to GET and DELETE of base/{id} without
\* body, a compiled create is POST on the base path and a compiled update is PUT
\* on base/{id}; read, update and delete without an id fail and send nothing, with
\* the missing-identifier error (for an update, when `updates` decodes and the tags
\* are well formed, which the code checks first); and the base paths of the four
\* entity types differ.
C17_OperationsMapToRequests ==
    /\ \A e1 \in EntityTypes : \A e2 \in EntityTypes :
         e1 # e2 => _ENTITY_BASE_PATHS[e1] # _ENTITY_BASE_PATHS[e2]
    /\ treq.tool = "content" =>
         LET base == _ENTITY_BASE_PATHS[treq.entity_type]
             id == treq.a.entity_id
         IN  /\ (treq.operation = "read" /\ ~IsNone(id)) =>
                   tprep = PreparedOperation("GET", <<base, id[2]>>, NoBody)
             /\ (treq.operation = "delete" /\ ~IsNone(id)) =>
                   tprep = PreparedOperation("DELETE", <<base, id[2]>>, NoBody)
             /\ (treq.operation = "create" /\ ~Failed(tprep)) =>
                   (tprep.method = "POST" /\ tprep.path = <<base>> /\ tprep.json.present)
             /\ (treq.operation = "update" /\ ~Failed(tprep)) =>
                   /\ ~IsNone(id)
                   /\ tprep.method = "PUT" /\ tprep.path = <<base, id[2]>>
                   /\ tprep.json.present
             /\ (treq.operation \in {"read", "update", "delete"} /\ IsNone(id)) =>
                   /\ tpc = "failed"
                   /\ net = <<>>
                   /\ (~Failed(_coerce_json_object(treq.a.updates, "'updates'"))
                         /\ ~Failed(_format_tags(treq.a.tags))) \/ treq.operation # "update"
                        => terr.msg = MissingId(treq.operation)
             /\ (~Failed(tprep) /\ ~timg.present /\ RequestMade) =>
                   net = <<JsonRequest(tprep.method, tprep.path, tprep.json)>>

\* a page delete that has sent DELETE /api/pages/7
C17_Witness ==
    /\ treq.tool = "content"
    /\ treq.operation = "delete"
    /\ tpc = "done"
    /\ net = <<JsonRequest("DELETE", <<"/api/pages", 7>>, NoBody)>>

\* where the errors about the caller's input are raised
ValidationStages == {"compile", "validate", "image"}

\* the errors the calls raise for a missing id, a missing required field,
\* conflicting content, an invalid tag, malformed overrides, a missing image name
\* or payload
InputValidationMessages ==
    {MissingId("read"), MissingId("update"), MissingId("delete"),
     "'id' is required for read/update/delete operations",
     "'name' is required when creating an entity",
     "'description' is required when creating a book",
     "'book_id' is required", ScopeRequired, NoFieldToUpdate, ConflictingContent,
     "'updates' must contain valid JSON", "'updates' must be a JSON object",
     "'name' is required when creating an image",
     "Provide an image payload for create operations",
     "'uploaded_to' is required when creating an image",
     "Provide new_name, new_image, or both for update operations"} \cup InvalidTagErrors

\* C18: a call that has raised an error about its input (one of the errors listed,
\* or any error raised while compiling, validating or decoding the arguments) has
\* made no HTTP request; and every error listed is raised at such a place.
C18_ValidationBeforeNetwork ==
    /\ (terr.at \in ValidationStages \/ terr.msg \in InputValidationMessages) => net = <<>>
    /\ terr.msg \in InputValidationMessages => terr.at \in {"compile", "validate"}

\* an image create with an http url as image and no name
C18_Witness ==
    /\ treq.tool = "images"
    /\ treq.operation = "create"
    /\ treq.im.image.form = "http"
    /\ tpc = "failed"
    /\ terr.msg = "'name' is required when creating an image"
    /\ net = <<>>

\* C19: while one of the three settings is missing or empty, a call makes no HTTP
\* request, never succeeds, and fails only over its input or with the
\* configuration error.
C19_ConfigurationCheckedFirst ==
    (tpc # "idle" /\ ConfigError(env) # "") =>
        /\ net = <<>>
        /\ tpc # "done"
        /\ tpc = "failed" => terr.at \in ValidationStages \cup {"config"}

----------------------------------------------------------------------------
(* Properties of _fetch_image_from_url, under SpecFetch *)

\* the Content-Length header names a number above the limit
DeclaredOver ==
    /\ Truthy(fresp.content_length)
    /\ IntOk(fresp.content_length)
    /\ IntOf(fresp.content_length) > _MAX_IMAGE_SIZE_BYTES

\* C20: a response that declares a Content-Length above the limit fails with the
\* too-large error and no chunk of its body is read; whatever is declared, the
\* download fails as soon as the bytes read exceed the limit, so the call is never
\* streaming or done with more than the limit; and a returned PreparedImage holds
\* at least one byte and at most the limit.
C20_SizeCeilingEnforcedTwice ==
    /\ DeclaredOver => (fpc = "failed" /\ ferr = TooLarge /\ fread = 0 /\ fcontent = 0)
    /\ ferr = TooLarge => DeclaredOver
    /\ fcontent > _MAX_IMAGE_SIZE_BYTES => (fpc = "failed" /\ ferr = DownloadExceeded)
    /\ ferr = DownloadExceeded => (fcontent > _MAX_IMAGE_SIZE_BYTES /\ fread > 0)
    /\ fpc = "done" =>
         /\ fresult.present
         /\ fresult.content = Bytes(fcontent)
         /\ fcontent >= 1
         /\ fcontent <= _MAX_IMAGE_SIZE_BYTES

\* a download that declared 8192 bytes and is stopped at its second chunk, which
\* takes it one byte over the limit
C20_Witness ==
    /\ fpc = "failed"
    /\ ferr = DownloadExceeded
    /\ fresp.content_length = PyStr(DecStr(8192))
    /\ fread = 2
    /\ fcontent = _MAX_IMAGE_SIZE_BYTES + 1

----------------------------------------------------------------------------
(* Properties of the image payload resolver, under SpecResolve *)

\* the call has fetched from a url
Fetched == rnet # <<>>

\* C21: every PreparedImage the resolver returns holds at most
\* _MAX_IMAGE_SIZE_BYTES bytes and has a mime type of the allow-list or the default
\* application/octet-stream.
C21_ResolvedImageWithinLimits ==
    rpc = "done" =>
        /\ rres.image.present
        /\ rres.image.content[2] <= _MAX_IMAGE_SIZE_BYTES
        /\ rres.image.mime_type \in _ALLOWED_MIME_TYPES \cup {_DEFAULT_MIME_TYPE}

\* the scheme of a text, whatever its case, is http or https
HttpOrHttps(text) ==
    \/ Len(text.scheme) = 4 /\ Lower(text.scheme) = <<"h", "t", "t", "p">>
    \/ Len(text.scheme) = 5 /\ Lower(text.scheme) = <<"h", "t", "t", "p", "s">>

\* the text is an absolute URL: it names a scheme and a host
AbsoluteUrl(text) == text.scheme # <<>> /\ text.netloc # <<>>

\* the text carries a URL scheme other than http and https: it names a scheme
\* and is no data: URL
OtherUrlScheme(text) ==
    /\ text.scheme # <<>>
    /\ ~HttpOrHttps(text)
    /\ text.body.form \notin {"data", "data_undecodable"}

\* C22: every url fetched, also one taken from gallery metadata, is an absolute
\* URL with scheme http or https; an image text that carries any other URL
\* scheme fails with the unsupported-scheme error and nothing is fetched; a text
\* that is no URL is never fetched: if it matches the data: pattern it is decoded
\* as a data: URL (its error for an empty payload, its mime type or the default
\* otherwise), and only otherwise as base64.
C22_FetchOnlyHttpUrls ==
    /\ \A j \in 1..Len(rnet) : AbsoluteUrl(rnet[j]) /\ HttpOrHttps(rnet[j])
    /\ (rin.kind = "text" /\ rpc \in {"fetching", "done", "failed"}) =>
         LET text == rin.text
             body == text.body
         IN  /\ OtherUrlScheme(text) =>
                   (/\ rpc = "failed"
                    /\ rres.err = UnsupportedScheme(JoinChars(Lower(text.scheme)))
                    /\ ~Fetched)
             /\ (AbsoluteUrl(text) /\ HttpOrHttps(text)) =>
                   (rpc = "fetching" \/ rnet = <<text>>)
             /\ (~AbsoluteUrl(text) /\ ~OtherUrlScheme(text)) =>
                   /\ ~Fetched
                   /\ rpc # "fetching"
                   /\ body.form = "data" =>
                        IF body.size = 0 THEN rres.err = EmptyDataUrl
                        ELSE /\ rpc = "done"
                             /\ rres.image = PreparedImage(rin.fallback, Bytes(body.size),
                                   IF IsNone(body.mime) THEN _DEFAULT_MIME_TYPE ELSE body.mime)
                   /\ body.form = "base64" =>
                        IF body.size = 0 THEN rres.err = EmptyDecoded
                        ELSE /\ rpc = "done"
                             /\ rres.image = PreparedImage(rin.fallback, Bytes(body.size),
                                                           _DEFAULT_MIME_TYPE)
                   /\ body.form \in {"undecodable", "data_undecodable"} =>
                        rres.err = UndecodableBase64

\* the mime type the Content-Type header names: its text before the first ";",
\* in lower case
NamedByHeader(content_type) ==
    IF IsNone(content_type) THEN PyStr(<<>>)
    ELSE LET first == BeforeSemicolon(content_type[2])
         IN  PyStr([i \in 1..Len(first) |-> LowerPiece(first[i])])

\* C23: the mime type of a fetched image is the one its Content-Type names when
\* that is in the allow-list, else the one guessed from the url when that is in
\* the allow-list, else application/octet-stream.
C23_MimeFromHeaderThenUrl ==
    (rpc = "done" /\ Fetched) =>
        LET named == NamedByHeader(rresp.content_type)
            guessed == GuessType(rurl)
            mime == rres.image.mime_type
        IN  /\ named \in _ALLOWED_MIME_TYPES => mime = named
            /\ (named \notin _ALLOWED_MIME_TYPES /\ guessed \in _ALLOWED_MIME_TYPES) =>
                  mime = guessed
            /\ (named \notin _ALLOWED_MIME_TYPES /\ guessed \notin _ALLOWED_MIME_TYPES) =>
                  mime = _DEFAULT_MIME_TYPE
            /\ rresp.content_type = PyStr(<<"IMAGE/PNG", ";", " charset=utf-8">>) =>
                  mime = PngMime
            /\ (rresp.content_type = PyStr(<<"Text/Html">>) /\ rurl.query = <<>>) =>
                  /\ rurl.path = <<"/", "c", ".", "P", "N", "G">> => mime = PngMime
                  /\ rurl.path = <<"/", "c", ".", "t", "x", "t">> => mime = _DEFAULT_MIME_TYPE
                  /\ rurl.path = <<"/", "c">> => mime = _DEFAULT_MIME_TYPE

\* a response of type text/html for /c.svgz: the type is guessed from the url
C23_Witness ==
    /\ rpc = "done"
    /\ Fetched
    /\ rresp.content_type = PyStr(<<"Text/Html">>)
    /\ rurl.path = <<"/", "c", ".", "s", "v", "g", "z">>
    /\ rres.image.mime_type = PyStr(<<"image/svg+xml">>)

\* the last segment of a url's path (a trailing "/" aside)
LastPathSegment(text) == LastSegment(StripChar(text.path, "/"))

\* C24: the file name of a fetched image is the last segment of the url's path,
\* its characters other than letters, digits, "-", "_" and "." replaced, when
\* that segment holds a dot, and the fallback name in every other case.
C24_FilenameFromLastSegment ==
    (rpc = "done" /\ Fetched) =>
        LET segment == LastPathSegment(rurl)
        IN  IF \E i \in 1..Len(segment) : segment[i] = "."
            THEN rres.image.filename = PyStr(SanitiseFilename(segment))
            ELSE rres.image.filename = rname

\* the time at which the parameters of invocation i were last stored
StoredTime(i) == StoredAt(AsMapping(QueryOf(i))).time

\* C25 (under SpecCacheSeq): the entry a list call finds carries the time at which
\* it was stored; while that is at most the TTL ago the call is answered from the
\* entry and the cache is left as it is, timestamp included; after that the call
\* is a miss and the entry, and only that entry, is removed.
C25_EntryLivesForTTL ==
    [][\A i \in Invs :
         (inv[i].pc = "check" /\ inv'[i].pc # "check") =>
            /\ inv[i].cache_key \in DOMAIN LIST_CACHE
            /\ LIST_CACHE[inv[i].cache_key].timestamp = StoredTime(i)
            /\ IF now - StoredTime(i) <= _LIST_CACHE_TTL_SECONDS
               THEN /\ inv'[i].pc = "done"
                    /\ inv'[i].cached
                    /\ inv'[i].data = LIST_CACHE[inv[i].cache_key].data
                    /\ LIST_CACHE' = LIST_CACHE
               ELSE /\ inv'[i].pc = "fetch"
                    /\ ~inv'[i].cached
                    /\ DOMAIN LIST_CACHE' = (DOMAIN LIST_CACHE) \ {inv[i].cache_key}
                    /\ \A k \in DOMAIN LIST_CACHE' : LIST_CACHE'[k] = LIST_CACHE[k]
      ]_vars

\* with no mutation ever made, a list call whose parameters were stored longer ago
\* than the TTL missed: its entry is gone, another entry is still there
C25_Witness ==
    \E i \in Invs :
        /\ remote = 0
        /\ inv[i].op = "list"
        /\ inv[i].pc = "fetch"
        /\ inv[i].sent = 0
        /\ StoredTime(i) >= 0
        /\ now - StoredTime(i) > _LIST_CACHE_TTL_SECONDS
        /\ inv[i].cache_key \notin DOMAIN LIST_CACHE
        /\ LIST_CACHE # EmptyCache

----------------------------------------------------------------------------
(* Properties of update_bookshelf, under SpecShelf *)

\* a call that passes the checks with books given and no name and no description
BooksOnlyUpdate ==
    /\ sargs # NoShelfArgs
    /\ ShelfValidation(sargs) = ""
    /\ IsNone(sargs.name)
    /\ IsNone(sargs.description)
    /\ ~IsNone(sargs.books)

ShelfGetSent == Len(scalls) >= 1 /\ scalls[1] = ShelfRequest("GET", sargs.id[2], NoBody)

\* a field of the fetched record, the empty text when the record lacks it
FetchedField(key) == IF key \in DOMAIN scur.fields THEN scur.fields[key] ELSE PyStr(<<>>)

\* C26: update_bookshelf with books and neither name nor description sends
\* GET /api/shelves/{id} first and then, once the GET has answered with a record,
\* exactly one PUT /api/shelves/{id} whose body carries the given books and the
\* name and description of the fetched record; when the GET fails no PUT is sent.
C26_ShelfUpdateMergesFetched ==
    BooksOnlyUpdate =>
        /\ Len(scalls) <= 2
        /\ scalls # <<>> => ShelfGetSent
        /\ \A n \in 1..Len(scalls) :
             scalls[n].method = "PUT" =>
                /\ n = 2
                /\ scur.isdict
                /\ scalls[n].path = <<ShelvesBase, sargs.id[2]>>
                /\ scalls[n].json.present
                /\ {"books", "name", "description"} \subseteq DOMAIN scalls[n].json.body
                /\ scalls[n].json.body["books"] = sargs.books
                /\ scalls[n].json.body["name"] = FetchedField("name")
                /\ scalls[n].json.body["description"] = FetchedField("description")
        /\ spc = "put" => (ShelfGetSent /\ Len(scalls) = 1)
        /\ spc = "done" =>
             IF sres = ShelfGetFailed THEN scalls = <<ShelfRequest("GET", sargs.id[2], NoBody)>>
             ELSE scur.isdict => (Len(scalls) = 2 /\ scalls[2].method = "PUT")

\* books=[7] for shelf 3 whose record names S and T: GET, then PUT with all three
C26_Witness ==
    /\ spc = "done"
    /\ sres = ""
    /\ BooksOnlyUpdate
    /\ IsNone(sargs.tags)
    /\ scalls = <<ShelfRequest("GET", 3, NoBody),
                  ShelfRequest("PUT", 3, Body(("name" :> CurrentName)
                                              @@ ("description" :> CurrentDescription)
                                              @@ ("books" :> PyList(<<PyInt(7)>>))))>>

----------------------------------------------------------------------------
(* The image list cache under concurrent calls, SpecCache *)

\* C27 (under SpecCache): a list call that started when n image mutations had
\* completed is not answered from a cache entry whose data was fetched before
\* the n-th change of the remote.
C27_NoStaleListAfterMutation ==
    \A i \in Invs :
        (inv[i].op = "list" /\ inv[i].cached) => inv[i].data >= inv[i].started

----------------------------------------------------------------------------
(* The batch loop and its chunks, under SpecBatch *)

\* the items whose request the transport failed in this run
TransportFailed == {errors[n].index : n \in {m \in 1..Len(errors) : errors[m].error = TransportFailure}}

\* the run over the items from position n on as one slice, as with batch_size
\* omitted, with the same requests failing: what it adds to `acc`
RECURSIVE OneSliceRun(_, _)
OneSliceRun(n, acc) ==
    IF n >= total THEN acc
    ELSE LET p == build_prepared(binp.operation, binp.entity_type, binp.items[n + 1])
             failed_acc(msg, sends) ==
                 [successes |-> acc.successes,
                  errors |-> Append(acc.errors, [index |-> n, error |-> msg]),
                  calls |-> IF sends THEN Append(acc.calls, RequestOf(n, p)) ELSE acc.calls]
             after(next) == IF binp.continue_on_error THEN OneSliceRun(n + 1, next) ELSE next
         IN  IF Failed(p) THEN after(failed_acc(p.err, FALSE))
             ELSE IF binp.dry_run
             THEN OneSliceRun(n + 1, [acc EXCEPT !.successes = Append(@, DryRecord(n, p))])
             ELSE IF n \in TransportFailed THEN after(failed_acc(TransportFailure, TRUE))
             ELSE OneSliceRun(n + 1,
                     [successes |-> Append(acc.successes, [index |-> n, result |-> "response"]),
                      errors |-> acc.errors,
                      calls |-> Append(acc.calls, RequestOf(n, p))])

\* C28: a batch run with a batch_size of 1 or more ends with the results, the
\* errors (hence the counts) and the sequence of requests of the run of the same
\* items with batch_size omitted in which the same requests fail.
C28_BatchSizeNotObservable ==
    bpc = "done" =>
        [successes |-> successes, errors |-> errors, calls |-> calls]
            = OneSliceRun(0, [successes |-> <<>>, errors |-> <<>>, calls |-> <<>>])

\* three items in chunks of two: an error in the first chunk, a request failed
\* and a request answered
C28_Witness ==
    /\ bpc = "done"
    /\ binp.batch_size = PyInt(2)
    /\ total = 3
    /\ ~binp.dry_run
    /\ binp.continue_on_error
    /\ Len(errors) = 2
    /\ TransportFailed # {}
    /\ Len(successes) = 1
    /\ Len(calls) = 2

\* the batch loop is running
BatchRunning == bpc \in {"loop", "built"}

\* C30 (under SpecBatchFair): a batch run that has entered its loop returns; every
\* time the outer loop comes round the chunk index has grown; no item is handed to
\* build_prepared twice in a run.
C30_BatchTerminates ==
    /\ BatchRunning ~> (bpc = "done")
    /\ [][(BatchRunning /\ BatchRunning' /\ <<bidx, boff>>' # <<bidx, boff>> /\ boff' = 0 /\ built' # <<>>)
            => bidx' > bidx]_vars
    /\ [](\A j \in 1..Len(built) : \A k \in 1..Len(built) : j # k => built[j] # built[k])

\* three items in chunks of two, the second outer iteration done, with a failure
\* that stopped nothing
C30_Witness ==
    /\ bpc = "done"
    /\ binp.batch_size = PyInt(2)
    /\ total = 3
    /\ bidx = 3
    /\ built = <<0, 1, 2>>
    /\ errors # <<>>

----------------------------------------------------------------------------
(* Properties of SmartCache, under SpecLru *)

\* the keys the last operation removed
LruRemoved == lop.before \ LruKeysOf(lcache)

\* C29: a set of a new key on a cache that holds max_size entries removes exactly
\* one entry, and that entry is the one used (read by get or written by set)
\* longest ago.
C29_EvictsLeastRecentlyUsed ==
    (lop.op = "set" /\ lop.key \notin lop.before /\ Cardinality(lop.before) >= MaxSize) =>
        /\ Cardinality(LruRemoved) = 1
        /\ LruRemoved \subseteq lop.oldest

=============================================================================
